---- MODULE Spec2Model ----
(***************************************************************************)
(* A model of datumforge/enthistory.                                       *)
(*                                                                         *)
(*  - The Mutation Hook Dispatcher (src/generateschemas.go:306-410): the   *)
(*    chain returned by HistoryHooks, run by concurrent callers against    *)
(*    one entity and its history table.            Specification: Spec     *)
(*  - The Generation Coordinator: generateHistorySchemas in its concurrent *)
(*    revisions (src/unnamed/part_001, src/generate.go, with the           *)
(*    createSchemas goroutines) and its sequential revision                *)
(*    (src/enthistory.go).                         Specification: SpecGen  *)
(*  - The Schema Derivation Engine (src/generateschemas.go and its earlier *)
(*    revision src/unnamed/part_003): GenerateSchemas, shouldGenerate,     *)
(*    getTemplateInfo, generateHistorySchema and createHistoryFields,      *)
(*    applied to one schema.                       Specification: SpecDerive *)
(***************************************************************************)
EXTENDS Integers, Sequences, FiniteSets, TLC

VARIABLES
    \* ---- Mutation Hook Dispatcher ----
    m,        \* m[c]: the in-flight mutation of caller c ([op, typed]) or NoMutation
    stack,    \* stack[c]: the call stack of caller c inside the hook chain
    ret,      \* ret[c]: the (ent.Value, error) pair last returned in caller c
    log,      \* log[c]: the calls made on behalf of caller c's mutation, in order
    entity,   \* the entity row the mutations act on
    history,  \* the rows of the entity's history table, in write order
    started,  \* number of mutations started so far
    \* ---- Generation Coordinator ----
    variant,  \* which revision of generateHistorySchemas/createSchemas runs
    run,      \* number of invocations of the generator started on the extension
    fed,      \* whether g.Schemas is the list the invocation before handed to gen.NewGraph
    gSchemas, \* g.Schemas, the input schemas of the run
    gpc,      \* position of the generateHistorySchemas closure
    spawned,  \* number of iterations of the loop over g.Schemas made so far
    tpc,      \* tpc[i]: position of the createSchemas goroutine of g.Schemas[i]
    tlocal,   \* tlocal[i]: the value of h.schemas goroutine i has loaded
    schemas,  \* h.schemas (enthistory.go: the local slice schemas), as schema names
    wg,       \* the counter of the sync.WaitGroup
    graph,    \* the schemas handed to gen.NewGraph, or NoGraph
    generated, \* whether next.Generate was invoked
    gerr,     \* the error the generateHistorySchemas closure has returned
    \* ---- Schema Derivation Engine ----
    revision, \* which revision of generateHistorySchema runs
    schema,   \* the *load.Schema of the loop iteration of GenerateSchemas
    config,   \* h.config
    idType,   \* graph.IDType.String()
    dpc,      \* position of the iteration
    include,  \* the value shouldGenerate(schema) returned
    info,     \* the templateInfo handed to parseSchemaTemplate
    historySchema, \* the derived history schema
    derr      \* the error GenerateSchemas returns

hookVars == <<m, stack, ret, log, entity, history, started>>
genVars == <<variant, run, fed, gSchemas, gpc, spawned, tpc, tlocal, schemas, wg, graph, generated,
             gerr>>
deriveVars == <<revision, schema, config, idType, dpc, include, info, historySchema, derr>>
vars == <<m, stack, ret, log, entity, history, started,
          variant, run, fed, gSchemas, gpc, spawned, tpc, tlocal, schemas, wg, graph, generated,
          gerr,
          revision, schema, config, idType, dpc, include, info, historySchema, derr>>

(***************************************************************************)
(* Bounds                                                                  *)
(***************************************************************************)
\* total number of mutations the callers start in one behaviour
MaxMutations == 2

\* the concurrent callers of the hook chain
Callers == {1, 2}

\* number of input schemas of a run that are not plain tracked schemas
MaxSpecial == 1

\* largest number of invocations of the generator on one extension
MaxRuns == 2

\* largest number of fields of the schema handed to the derivation
MaxFields == 2

(***************************************************************************)
(* Part 1. Mutation Hook Dispatcher                                        *)
(***************************************************************************)
Nil == <<>>
NoMutation == [op |-> {}, typed |-> FALSE, none |-> TRUE]

\* ent.Op is a bit mask; a mask is modelled as the set of its bits.
OpCreate == {"OpCreate"}
OpUpdate == {"OpUpdate"}
OpUpdateOne == {"OpUpdateOne"}
OpDelete == {"OpDelete"}
OpDeleteOne == {"OpDeleteOne"}
Ops == {OpCreate, OpUpdate, OpUpdateOne, OpDelete, OpDeleteOne}

\* ent.Op.Is: o&op != 0
Is(o, op) == (o \cap op) # {}

ErrTypedMutation == <<"error", "expected appropriately typed mutation in schema hook">>
ErrMutate == <<"error", "underlying mutation failed">>
ErrHistory == <<"error", "history write failed">>

Push(s, f) == Append(s, f)
Pop(s) == SubSeq(s, 1, Len(s) - 1)
Top(s) == s[Len(s)]
SetPc(s, pc) == [s EXCEPT ![Len(s)].pc = pc]

Frame(fn, hook, pc) == [fn |-> fn, hook |-> hook, pc |-> pc]
Event(ev, hook, err) == [ev |-> ev, hook |-> hook, err |-> err]
Running(c, fn, pc) ==
    /\ stack[c] # <<>>
    /\ Top(stack[c]).fn = fn
    /\ Top(stack[c]).pc = pc
Done(c) == m[c] # NoMutation /\ stack[c] = <<>>
Idle(c) == m[c] = NoMutation \/ Done(c)

\* Mutant of HistoryHooks: the update interceptor registered for OpUpdate alone.
HistoryHooks_UpdateOnly ==
    << [hk |-> "historyHookCreate", op |-> OpCreate],
       [hk |-> "historyHookUpdate", op |-> OpUpdate],
       [hk |-> "historyHookDelete", op |-> OpDelete \cup OpDeleteOne] >>

\* HistoryHooks: the three operation-filtered interceptors, in chain order.
HistoryHooks ==
    << [hk |-> "historyHookCreate", op |-> OpCreate],
       [hk |-> "historyHookUpdate", op |-> OpUpdate \cup OpUpdateOne],
       [hk |-> "historyHookDelete", op |-> OpDelete \cup OpDeleteOne] >>

\* The mutator a hook at position i of the chain receives as `next`: the next
\* interceptor, or after the last one the mutation's own executor.
NextMutator(i) ==
    IF i < Len(HistoryHooks)
        THEN Frame("On", i + 1, "check")
        ELSE Frame("Mutate", 0, "exec")

\* Mutant of getTypedMutation: the failed assertion is not reported.
getTypedMutation_Unchecked(mut) == [f |-> mut, err |-> Nil]

\* getTypedMutation: the type assertion any(m).(T)
getTypedMutation(mut) ==
    IF mut.typed THEN [f |-> mut, err |-> Nil]
                 ELSE [f |-> Nil, err |-> ErrTypedMutation]

\* The effect of the underlying mutation on the entity row.
ApplyOp(op, e) ==
    CASE op = OpCreate -> [exists |-> TRUE, ver |-> e.ver + 1]
      [] op \in {OpUpdate, OpUpdateOne} ->
            IF e.exists THEN [e EXCEPT !.ver = e.ver + 1] ELSE e
      [] OTHER -> [e EXCEPT !.exists = FALSE]

\* Whether the underlying mutation can succeed: a single-row update or delete
\* needs the row, and the row is created once.
CanApply(op, e) ==
    CASE op = OpCreate -> ~e.exists
      [] op \in {OpUpdateOne, OpDeleteOne} -> e.exists
      [] OTHER -> TRUE

\* A history row: the operation and the entity as the callback reads it.
HistoryRow(c, operation) ==
    [operation |-> operation, exists |-> entity.exists, ver |-> entity.ver, by |-> c]

\* A caller hands a mutation to the composed chain (hooks[0] is outermost).
Begin(c) ==
    /\ Idle(c)
    /\ started < MaxMutations
    /\ \E op \in Ops, typed \in BOOLEAN :
          m' = [m EXCEPT ![c] = [op |-> op, typed |-> typed, none |-> FALSE]]
    /\ stack' = [stack EXCEPT ![c] = <<Frame("On", 1, "check")>>]
    /\ ret' = [ret EXCEPT ![c] = [value |-> Nil, err |-> Nil]]
    /\ log' = [log EXCEPT ![c] = <<>>]
    /\ started' = started + 1
    /\ UNCHANGED <<entity, history>>

\* Mutant of On: the operation filter is dropped, the hook always runs.
On_Unfiltered(c) ==
    /\ Running(c, "On", "check")
    /\ LET i == Top(stack[c]).hook
       IN  /\ stack' = [stack EXCEPT ![c] =
                           Push(SetPc(@, "return"),
                                Frame(HistoryHooks[i].hk, i, "getTypedMutation"))]
           /\ log' = [log EXCEPT ![c] = Append(@, Event("hk.Mutate", i, Nil))]
    /\ UNCHANGED <<m, ret, entity, history, started>>

\* On: if m.Op().Is(op) { return hk(next).Mutate(ctx, m) }; return next.Mutate(ctx, m)
On(c) ==
    /\ Running(c, "On", "check")
    /\ LET i == Top(stack[c]).hook
           active == Is(m[c].op, HistoryHooks[i].op)
           callee == IF active
                        THEN Frame(HistoryHooks[i].hk, i, "getTypedMutation")
                        ELSE NextMutator(i)
       IN  /\ stack' = [stack EXCEPT ![c] = Push(SetPc(@, "return"), callee)]
           /\ log' = [log EXCEPT ![c] =
                         Append(@, Event(IF active THEN "hk.Mutate" ELSE "next.Mutate", i, Nil))]
    /\ UNCHANGED <<m, ret, entity, history, started>>

\* On: the `return` of either call, which hands the callee's result on.
OnReturn(c) ==
    /\ Running(c, "On", "return")
    /\ stack' = [stack EXCEPT ![c] = Pop(@)]
    /\ UNCHANGED <<m, ret, log, entity, history, started>>

\* The mutation's own executor, the innermost mutator of the chain.
Mutate(c) ==
    /\ Running(c, "Mutate", "exec")
    /\ \/ /\ CanApply(m[c].op, entity)
          /\ entity' = ApplyOp(m[c].op, entity)
          /\ ret' = [ret EXCEPT ![c] = [value |-> <<"value", entity'.ver>>, err |-> Nil]]
          /\ log' = [log EXCEPT ![c] = Append(@, Event("Mutate", 0, Nil))]
       \/ /\ entity' = entity
          /\ ret' = [ret EXCEPT ![c] = [value |-> Nil, err |-> ErrMutate]]
          /\ log' = [log EXCEPT ![c] = Append(@, Event("Mutate", 0, ErrMutate))]
    /\ stack' = [stack EXCEPT ![c] = Pop(@)]
    /\ UNCHANGED <<m, history, started>>

\* historyHookCreate, lines 358-363: the type assertion, then next.Mutate.
historyHookCreate(c) ==
    /\ Running(c, "historyHookCreate", "getTypedMutation")
    /\ LET t == getTypedMutation(m[c])
           i == Top(stack[c]).hook
       IN  IF t.err # Nil
             THEN /\ stack' = [stack EXCEPT ![c] = Pop(@)]
                  /\ ret' = [ret EXCEPT ![c] = [value |-> Nil, err |-> t.err]]
                  /\ log' = [log EXCEPT ![c] = Append(@, Event("getTypedMutation", i, t.err))]
             ELSE /\ stack' = [stack EXCEPT ![c] =
                                  Push(SetPc(@, "CreateHistoryFromCreate"), NextMutator(i))]
                  /\ ret' = ret
                  /\ log' = [log EXCEPT ![c] =
                                Append(Append(@, Event("getTypedMutation", i, Nil)),
                                       Event("hook.next.Mutate", i, Nil))]
    /\ UNCHANGED <<m, entity, history, started>>

\* Mutant of historyHookCreateHistory: the hook returns (nil, nil) after the
\* history write instead of the value of next.Mutate.
historyHookCreateHistory_DropsValue(c) ==
    /\ Running(c, "historyHookCreate", "CreateHistoryFromCreate")
    /\ stack' = [stack EXCEPT ![c] = Pop(@)]
    /\ IF ret[c].err # Nil
         THEN /\ ret' = [ret EXCEPT ![c] = [value |-> Nil, err |-> ret[c].err]]
              /\ UNCHANGED <<log, history>>
         ELSE \/ /\ history' = Append(history, HistoryRow(c, "create"))
                 /\ ret' = [ret EXCEPT ![c] = [value |-> Nil, err |-> Nil]]
                 /\ log' = [log EXCEPT ![c] = Append(@, Event("CreateHistoryFromCreate", 1, Nil))]
              \/ /\ history' = history
                 /\ ret' = [ret EXCEPT ![c] = [value |-> Nil, err |-> ErrHistory]]
                 /\ log' = [log EXCEPT ![c] =
                               Append(@, Event("CreateHistoryFromCreate", 1, ErrHistory))]
    /\ UNCHANGED <<m, entity, started>>

\* Mutant of historyHookCreateHistory: the error of next.Mutate is not checked
\* before the history callback runs.
historyHookCreateHistory_Unchecked(c) ==
    /\ Running(c, "historyHookCreate", "CreateHistoryFromCreate")
    /\ stack' = [stack EXCEPT ![c] = Pop(@)]
    /\ \/ /\ history' = Append(history, HistoryRow(c, "create"))
          /\ ret' = [ret EXCEPT ![c] = [value |-> ret[c].value, err |-> Nil]]
          /\ log' = [log EXCEPT ![c] = Append(@, Event("CreateHistoryFromCreate", 1, Nil))]
       \/ /\ history' = history
          /\ ret' = [ret EXCEPT ![c] = [value |-> Nil, err |-> ErrHistory]]
          /\ log' = [log EXCEPT ![c] =
                        Append(@, Event("CreateHistoryFromCreate", 1, ErrHistory))]
    /\ UNCHANGED <<m, entity, started>>

\* Mutant of historyHookCreateHistory: a failed history write deletes the row
\* the underlying create has just written.
historyHookCreateHistory_Rollback(c) ==
    /\ Running(c, "historyHookCreate", "CreateHistoryFromCreate")
    /\ stack' = [stack EXCEPT ![c] = Pop(@)]
    /\ IF ret[c].err # Nil
         THEN /\ ret' = [ret EXCEPT ![c] = [value |-> Nil, err |-> ret[c].err]]
              /\ UNCHANGED <<log, history, entity>>
         ELSE \/ /\ history' = Append(history, HistoryRow(c, "create"))
                 /\ entity' = entity
                 /\ ret' = [ret EXCEPT ![c] = [value |-> ret[c].value, err |-> Nil]]
                 /\ log' = [log EXCEPT ![c] = Append(@, Event("CreateHistoryFromCreate", 1, Nil))]
              \/ /\ history' = history
                 /\ entity' = [entity EXCEPT !.exists = FALSE]
                 /\ ret' = [ret EXCEPT ![c] = [value |-> Nil, err |-> ErrHistory]]
                 /\ log' = [log EXCEPT ![c] =
                               Append(@, Event("CreateHistoryFromCreate", 1, ErrHistory))]
    /\ UNCHANGED <<m, started>>

\* historyHookCreate, lines 364-373: after next.Mutate returned.
historyHookCreateHistory(c) ==
    /\ Running(c, "historyHookCreate", "CreateHistoryFromCreate")
    /\ stack' = [stack EXCEPT ![c] = Pop(@)]
    /\ IF ret[c].err # Nil
         THEN /\ ret' = [ret EXCEPT ![c] = [value |-> Nil, err |-> ret[c].err]]
              /\ UNCHANGED <<log, history>>
         ELSE \/ /\ history' = Append(history, HistoryRow(c, "create"))
                 /\ ret' = [ret EXCEPT ![c] = [value |-> ret[c].value, err |-> Nil]]
                 /\ log' = [log EXCEPT ![c] = Append(@, Event("CreateHistoryFromCreate", 1, Nil))]
              \/ /\ history' = history
                 /\ ret' = [ret EXCEPT ![c] = [value |-> Nil, err |-> ErrHistory]]
                 /\ log' = [log EXCEPT ![c] =
                               Append(@, Event("CreateHistoryFromCreate", 1, ErrHistory))]
    /\ UNCHANGED <<m, entity, started>>

\* Mutant of historyHookUpdate: CreateHistoryFromUpdate is not called.
historyHookUpdate_NoHistory(c) ==
    /\ Running(c, "historyHookUpdate", "getTypedMutation")
    /\ LET t == getTypedMutation(m[c])
           i == Top(stack[c]).hook
       IN  IF t.err # Nil
             THEN /\ stack' = [stack EXCEPT ![c] = Pop(@)]
                  /\ ret' = [ret EXCEPT ![c] = [value |-> Nil, err |-> t.err]]
                  /\ log' = [log EXCEPT ![c] = Append(@, Event("getTypedMutation", i, t.err))]
             ELSE /\ stack' = [stack EXCEPT ![c] = Push(SetPc(@, "return"), NextMutator(i))]
                  /\ ret' = ret
                  /\ log' = [log EXCEPT ![c] =
                                Append(Append(@, Event("getTypedMutation", i, Nil)),
                                       Event("hook.next.Mutate", i, Nil))]
    /\ UNCHANGED <<m, entity, history, started>>

\* Mutant of historyHookUpdate: the error of CreateHistoryFromUpdate is dropped
\* and the update goes ahead.
historyHookUpdate_IgnoreHistoryErr(c) ==
    /\ Running(c, "historyHookUpdate", "getTypedMutation")
    /\ LET t == getTypedMutation(m[c])
           i == Top(stack[c]).hook
       IN  IF t.err # Nil
             THEN /\ stack' = [stack EXCEPT ![c] = Pop(@)]
                  /\ ret' = [ret EXCEPT ![c] = [value |-> Nil, err |-> t.err]]
                  /\ log' = [log EXCEPT ![c] = Append(@, Event("getTypedMutation", i, t.err))]
                  /\ history' = history
             ELSE \E e \in {Nil, ErrHistory} :
                     /\ history' = IF e = Nil THEN Append(history, HistoryRow(c, "update"))
                                              ELSE history
                     /\ stack' = [stack EXCEPT ![c] = Push(SetPc(@, "return"), NextMutator(i))]
                     /\ ret' = ret
                     /\ log' = [log EXCEPT ![c] =
                                   Append(Append(Append(@, Event("getTypedMutation", i, Nil)),
                                                 Event("CreateHistoryFromUpdate", i, e)),
                                          Event("hook.next.Mutate", i, Nil))]
    /\ UNCHANGED <<m, entity, started>>

\* historyHookUpdate, lines 381-390: the type assertion, CreateHistoryFromUpdate,
\* then next.Mutate.
historyHookUpdate(c) ==
    /\ Running(c, "historyHookUpdate", "getTypedMutation")
    /\ LET t == getTypedMutation(m[c])
           i == Top(stack[c]).hook
       IN  IF t.err # Nil
             THEN /\ stack' = [stack EXCEPT ![c] = Pop(@)]
                  /\ ret' = [ret EXCEPT ![c] = [value |-> Nil, err |-> t.err]]
                  /\ log' = [log EXCEPT ![c] = Append(@, Event("getTypedMutation", i, t.err))]
                  /\ history' = history
             ELSE \/ /\ history' = Append(history, HistoryRow(c, "update"))
                     /\ stack' = [stack EXCEPT ![c] = Push(SetPc(@, "return"), NextMutator(i))]
                     /\ ret' = ret
                     /\ log' = [log EXCEPT ![c] =
                                   Append(Append(Append(@, Event("getTypedMutation", i, Nil)),
                                                 Event("CreateHistoryFromUpdate", i, Nil)),
                                          Event("hook.next.Mutate", i, Nil))]
                  \/ /\ history' = history
                     /\ stack' = [stack EXCEPT ![c] = Pop(@)]
                     /\ ret' = [ret EXCEPT ![c] = [value |-> Nil, err |-> ErrHistory]]
                     /\ log' = [log EXCEPT ![c] =
                                   Append(Append(@, Event("getTypedMutation", i, Nil)),
                                          Event("CreateHistoryFromUpdate", i, ErrHistory))]
    /\ UNCHANGED <<m, entity, started>>

\* Mutant of historyHookDelete: the delete runs first and the history callback
\* is called once it has returned, as historyHookCreate does.
historyHookDelete_MutateFirst(c) ==
    /\ Running(c, "historyHookDelete", "getTypedMutation")
    /\ LET t == getTypedMutation(m[c])
           i == Top(stack[c]).hook
           called == \E k \in 1..Len(log[c]) : log[c][k].ev = "hook.next.Mutate"
       IN  IF t.err # Nil
             THEN /\ stack' = [stack EXCEPT ![c] = Pop(@)]
                  /\ ret' = [ret EXCEPT ![c] = [value |-> Nil, err |-> t.err]]
                  /\ log' = [log EXCEPT ![c] = Append(@, Event("getTypedMutation", i, t.err))]
                  /\ history' = history
             ELSE IF ~called
                    THEN /\ stack' = [stack EXCEPT ![c] = Push(@, NextMutator(i))]
                         /\ log' = [log EXCEPT ![c] =
                                       Append(Append(@, Event("getTypedMutation", i, Nil)),
                                              Event("hook.next.Mutate", i, Nil))]
                         /\ UNCHANGED <<ret, history>>
                    ELSE /\ stack' = [stack EXCEPT ![c] = Pop(@)]
                         /\ IF ret[c].err # Nil
                              THEN UNCHANGED <<ret, log, history>>
                              ELSE /\ history' = Append(history, HistoryRow(c, "delete"))
                                   /\ log' = [log EXCEPT ![c] =
                                                 Append(@, Event("CreateHistoryFromDelete", i, Nil))]
                                   /\ ret' = ret
    /\ UNCHANGED <<m, entity, started>>

\* historyHookDelete, lines 398-407: the type assertion, CreateHistoryFromDelete,
\* then next.Mutate.
historyHookDelete(c) ==
    /\ Running(c, "historyHookDelete", "getTypedMutation")
    /\ LET t == getTypedMutation(m[c])
           i == Top(stack[c]).hook
       IN  IF t.err # Nil
             THEN /\ stack' = [stack EXCEPT ![c] = Pop(@)]
                  /\ ret' = [ret EXCEPT ![c] = [value |-> Nil, err |-> t.err]]
                  /\ log' = [log EXCEPT ![c] = Append(@, Event("getTypedMutation", i, t.err))]
                  /\ history' = history
             ELSE \/ /\ history' = Append(history, HistoryRow(c, "delete"))
                     /\ stack' = [stack EXCEPT ![c] = Push(SetPc(@, "return"), NextMutator(i))]
                     /\ ret' = ret
                     /\ log' = [log EXCEPT ![c] =
                                   Append(Append(Append(@, Event("getTypedMutation", i, Nil)),
                                                 Event("CreateHistoryFromDelete", i, Nil)),
                                          Event("hook.next.Mutate", i, Nil))]
                  \/ /\ history' = history
                     /\ stack' = [stack EXCEPT ![c] = Pop(@)]
                     /\ ret' = [ret EXCEPT ![c] = [value |-> Nil, err |-> ErrHistory]]
                     /\ log' = [log EXCEPT ![c] =
                                   Append(Append(@, Event("getTypedMutation", i, Nil)),
                                          Event("CreateHistoryFromDelete", i, ErrHistory))]
    /\ UNCHANGED <<m, entity, started>>

\* Mutant of historyHookReturn: when next.Mutate failed, the history rows the
\* caller has written are deleted again.
historyHookReturn_Rollback(c) ==
    /\ \/ Running(c, "historyHookUpdate", "return")
       \/ Running(c, "historyHookDelete", "return")
    /\ stack' = [stack EXCEPT ![c] = Pop(@)]
    /\ history' = IF ret[c].err # Nil
                     THEN SelectSeq(history, LAMBDA r : r.by # c)
                     ELSE history
    /\ UNCHANGED <<m, ret, log, entity, started>>

\* Mutant of historyHookReturn: a failed next.Mutate is tried once more.
historyHookReturn_Retry(c) ==
    /\ \/ Running(c, "historyHookUpdate", "return")
       \/ Running(c, "historyHookDelete", "return")
    /\ LET tries == Cardinality({k \in 1..Len(log[c]) : log[c][k].ev = "hook.next.Mutate"})
       IN  IF ret[c].err # Nil /\ tries < 2
             THEN /\ stack' = [stack EXCEPT ![c] = Push(@, NextMutator(Top(@).hook))]
                  /\ log' = [log EXCEPT ![c] =
                                Append(@, Event("hook.next.Mutate", Top(stack[c]).hook, Nil))]
             ELSE /\ stack' = [stack EXCEPT ![c] = Pop(@)]
                  /\ log' = log
    /\ UNCHANGED <<m, ret, entity, history, started>>

\* historyHookUpdate line 390 and historyHookDelete line 407: `return next.Mutate(ctx, m)`.
historyHookReturn(c) ==
    /\ \/ Running(c, "historyHookUpdate", "return")
       \/ Running(c, "historyHookDelete", "return")
    /\ stack' = [stack EXCEPT ![c] = Pop(@)]
    /\ UNCHANGED <<m, ret, log, entity, history, started>>

HookInit ==
    /\ m = [c \in Callers |-> NoMutation]
    /\ stack = [c \in Callers |-> <<>>]
    /\ ret = [c \in Callers |-> [value |-> Nil, err |-> Nil]]
    /\ log = [c \in Callers |-> <<>>]
    /\ entity \in {[exists |-> FALSE, ver |-> 0], [exists |-> TRUE, ver |-> 1]}
    /\ history = <<>>
    /\ started = 0

(***************************************************************************)
(* Part 2. Concurrent Generation Coordinator                               *)
(*                                                                         *)
(* Two revisions are in the source: src/generate.go (no wg.Add, no sort)   *)
(* and src/unnamed/part_001 (wg.Add(1) before each goroutine, a sort after *)
(* the append of a derived pair).  Neither guards h.schemas: the append    *)
(* and the sort are unsynchronised read-modify-writes of the slice.  Each  *)
(* is modelled as a load of the slice followed by a store of the new one,  *)
(* which gives the lost-update outcomes of the race.                       *)
(***************************************************************************)
\* Schema names are Go strings: sequences of bytes, compared bytewise.
Zeta == <<90, 101, 116, 97>>
Alpha == <<65, 108, 112, 104, 97>>
Mu == <<77, 117>>
HistorySuffix == <<72, 105, 115, 116, 111, 114, 121>>

\* Go's < on strings
StrLess(a, b) ==
    \E k \in 1..(Len(a) + 1) :
        /\ k <= Len(b)
        /\ \A j \in 1..(k - 1) : a[j] = b[j]
        /\ (k <= Len(a) => a[k] < b[k])

\* fmt.Sprintf("%vHistory", schema.Name)
HistoryName(name) == name \o HistorySuffix

\* Insert x into the sorted sequence s.
RECURSIVE Insert(_, _)
Insert(x, s) ==
    IF s = <<>> THEN <<x>>
    ELSE IF StrLess(x, Head(s)) THEN <<x>> \o s
    ELSE <<Head(s)>> \o Insert(x, Tail(s))

RECURSIVE SortByName(_)
SortByName(s) == IF s = <<>> THEN <<>> ELSE Insert(Head(s), SortByName(Tail(s)))

\* sortSchemasAlphabetically: sort.Slice by schemas[i].Name < schemas[j].Name
sortSchemasAlphabetically(s) == SortByName(s)

Concurrent == {"generate.go", "part_001"}
Variants == Concurrent \cup {"enthistory.go"}
NoGraph == <<"NoGraph">>

\* The errors the closure returns.
ErrNoIDType == <<"error", "could not get id type for schema">>
\* newNoIDTypeError: fmt.Errorf("%w: %v", ErrNoIDType, schemaName)
newNoIDTypeError(schemaName) == Append(ErrNoIDType, schemaName)
\* errors.Is(e, target) for the errors of this module
ErrorIs(e, target) == Len(e) >= Len(target) /\ SubSeq(e, 1, Len(target)) = target
ErrGenerateHistorySchema == <<"error", "generateHistorySchema">>
ErrNewGraph == <<"error", "gen.NewGraph">>
ErrGenerate == <<"error", "next.Generate">>

\* An input schema: its name, its History annotation (getHistoryAnnotations),
\* whether g.Nodes holds a node of its name with an ID type, and whether
\* generateHistorySchema succeeds on it (it returns an error for an ID type
\* that is not supported and for a schema file that cannot be written).
Schema(name, exclude, isHistory, hasID, derives) ==
    [name |-> name, exclude |-> exclude, isHistory |-> isHistory,
     hasID |-> hasID, derives |-> derives]
Tracked(name) == Schema(name, FALSE, FALSE, TRUE, TRUE)
\* A schema annotated isHistory is a history schema: it is named <Name>History.
Profiles(name) ==
    { p \in { Schema(IF ih THEN HistoryName(name) ELSE name, ex, ih, id, dv) :
                ex \in BOOLEAN, ih \in BOOLEAN, id \in BOOLEAN, dv \in BOOLEAN } :
        /\ p.exclude => p.hasID
        /\ (p.exclude \/ ~p.hasID) => p.derives }

\* The runs explored: Zeta, Alpha, Mu in this input order, at most MaxSpecial
\* of them other than a plain tracked schema with an ID type (the ID type of
\* an excluded schema is not looked for, and a schema is derived only when
\* it is not excluded and has an ID type).
Names == <<Zeta, Alpha, Mu>>
InputSets ==
    { s \in [1..Len(Names) -> UNION {Profiles(Names[i]) : i \in 1..Len(Names)}] :
        /\ \A i \in 1..Len(Names) : s[i] \in Profiles(Names[i])
        /\ Cardinality({i \in 1..Len(Names) : s[i] # Tracked(Names[i])}) <= MaxSpecial }

Tasks == 1..Len(gSchemas)
Crashed == gpc = "panic"

\* What createSchemas appends for a schema (lines 189-195 and 215 of part_001).
Appended(sch) ==
    IF sch.exclude
        THEN IF sch.isHistory THEN <<>> ELSE <<sch.name>>
        ELSE <<sch.name, HistoryName(sch.name)>>

\* generateHistorySchemas: one iteration of the loop over g.Schemas;
\* part_001 calls wg.Add(1) before the go statement, generate.go does not.
Spawn ==
    /\ ~Crashed
    /\ variant \in Concurrent
    /\ gpc = "loop"
    /\ spawned < Len(gSchemas)
    /\ spawned' = spawned + 1
    /\ tpc' = [tpc EXCEPT ![spawned + 1] = "createSchemas"]
    /\ wg' = IF variant = "part_001" THEN wg + 1 ELSE wg
    /\ UNCHANGED <<variant, run, fed, gSchemas, gpc, tlocal, schemas, graph, generated, gerr>>

\* generateHistorySchemas (enthistory.go): one iteration of the sequential
\* loop over g.Schemas (lines 273-303).  A schema without an ID type and an
\* error of generateHistorySchema make the closure return the error.
LoopBody ==
    /\ ~Crashed
    /\ variant = "enthistory.go"
    /\ gpc = "loop"
    /\ spawned < Len(gSchemas)
    /\ LET sch == gSchemas[spawned + 1]
       IN  IF ~sch.exclude /\ (~sch.hasID \/ ~sch.derives)
             THEN /\ gpc' = "returned"
                  /\ gerr' = IF ~sch.hasID THEN newNoIDTypeError(sch.name)
                                           ELSE ErrGenerateHistorySchema
                  /\ UNCHANGED <<spawned, schemas>>
             ELSE /\ schemas' = schemas \o Appended(sch)
                  /\ spawned' = spawned + 1
                  /\ UNCHANGED <<gpc, gerr>>
    /\ UNCHANGED <<variant, run, fed, gSchemas, tpc, tlocal, wg, graph, generated>>

\* generateHistorySchemas: the loop is over.
LoopEnd ==
    /\ ~Crashed
    /\ gpc = "loop"
    /\ spawned = Len(gSchemas)
    /\ gpc' = IF variant \in Concurrent THEN "wg.Wait" ELSE "gen.NewGraph"
    /\ UNCHANGED <<variant, run, fed, gSchemas, spawned, tpc, tlocal, schemas, wg, graph, generated, gerr>>

\* generateHistorySchemas: wg.Wait() returns when the counter is zero.
Wait ==
    /\ ~Crashed
    /\ gpc = "wg.Wait"
    /\ wg = 0
    /\ gpc' = "gen.NewGraph"
    /\ UNCHANGED <<variant, run, fed, gSchemas, spawned, tpc, tlocal, schemas, wg, graph, generated, gerr>>

\* generateHistorySchemas: gen.NewGraph(g.Config, h.schemas...); its error
\* is returned without calling next.Generate.
NewGraph ==
    /\ ~Crashed
    /\ gpc = "gen.NewGraph"
    /\ graph' = schemas
    /\ \/ gpc' = "next.Generate" /\ gerr' = gerr
       \/ gpc' = "returned" /\ gerr' = ErrNewGraph
    /\ UNCHANGED <<variant, run, fed, gSchemas, spawned, tpc, tlocal, schemas, wg, generated>>

\* generateHistorySchemas: return next.Generate(graph)
Generate ==
    /\ ~Crashed
    /\ gpc = "next.Generate"
    /\ generated' = TRUE
    /\ gpc' = "returned"
    /\ gerr' \in {Nil, ErrGenerate}
    /\ UNCHANGED <<variant, run, fed, gSchemas, spawned, tpc, tlocal, schemas, wg, graph>>

\* createSchemas up to the load of h.schemas by append: the annotations, the
\* lookup of the ID type (a panic when there is none) and the derivation (a
\* panic when generateHistorySchema returns an error).  A panic unwinds the
\* goroutine through its deferred wg.Done() before the runtime ends the
\* process.
createSchemas(i) ==
    /\ ~Crashed
    /\ tpc[i] = "createSchemas"
    /\ LET sch == gSchemas[i]
       IN  IF sch.exclude /\ sch.isHistory
             THEN /\ tpc' = [tpc EXCEPT ![i] = "wg.Done"]
                  /\ UNCHANGED <<gpc, tlocal>>
             ELSE IF ~sch.exclude /\ (~sch.hasID \/ ~sch.derives)
                    THEN /\ tpc' = [tpc EXCEPT ![i] = "panic"]
                         /\ UNCHANGED <<gpc, tlocal>>
                    ELSE /\ tlocal' = [tlocal EXCEPT ![i] = schemas]
                         /\ tpc' = [tpc EXCEPT ![i] = "append"]
                         /\ gpc' = gpc
    /\ UNCHANGED <<variant, run, fed, gSchemas, spawned, schemas, wg, graph, generated, gerr>>

\* createSchemas: h.schemas = append(h.schemas, ...), the store.
AppendStore(i) ==
    /\ ~Crashed
    /\ tpc[i] = "append"
    /\ schemas' = tlocal[i] \o Appended(gSchemas[i])
    /\ tlocal' = [tlocal EXCEPT ![i] = <<>>]
    /\ tpc' = [tpc EXCEPT ![i] =
                  IF variant = "part_001" /\ ~gSchemas[i].exclude
                      THEN "sort" ELSE "wg.Done"]
    /\ UNCHANGED <<variant, run, fed, gSchemas, gpc, spawned, wg, graph, generated, gerr>>

\* createSchemas (part_001): h.schemas = sortSchemasAlphabetically(h.schemas), the load.
SortLoad(i) ==
    /\ ~Crashed
    /\ tpc[i] = "sort"
    /\ tlocal' = [tlocal EXCEPT ![i] = schemas]
    /\ tpc' = [tpc EXCEPT ![i] = "sortStore"]
    /\ UNCHANGED <<variant, run, fed, gSchemas, gpc, spawned, schemas, wg, graph, generated, gerr>>

\* createSchemas (part_001): h.schemas = sortSchemasAlphabetically(h.schemas), the store.
SortStore(i) ==
    /\ ~Crashed
    /\ tpc[i] = "sortStore"
    /\ schemas' = sortSchemasAlphabetically(tlocal[i])
    /\ tlocal' = [tlocal EXCEPT ![i] = <<>>]
    /\ tpc' = [tpc EXCEPT ![i] = "wg.Done"]
    /\ UNCHANGED <<variant, run, fed, gSchemas, gpc, spawned, wg, graph, generated, gerr>>

\* createSchemas: the deferred wg.Done(), run when the function returns and
\* when it panics; a counter below zero panics.
WgDone(i) ==
    /\ ~Crashed
    /\ tpc[i] \in {"wg.Done", "panic"}
    /\ wg' = wg - 1
    /\ tpc' = [tpc EXCEPT ![i] = IF tpc[i] = "panic" THEN "fatalpanic" ELSE "done"]
    /\ gpc' = IF wg - 1 < 0 THEN "panic" ELSE gpc
    /\ UNCHANGED <<variant, run, fed, gSchemas, spawned, tlocal, schemas, graph, generated, gerr>>

\* The generator has returned and is invoked again on the same extension
\* with the same graph, the goroutines of the invocation before having
\* ended.  wg and schemas of enthistory.go are variables of the closure's
\* body, made anew by each invocation; h.schemas is a member of the
\* extension, which no revision resets.
Invoke ==
    /\ ~Crashed
    /\ gpc = "returned"
    /\ run < MaxRuns
    /\ \A i \in Tasks : tpc[i] \in {"unstarted", "done"}
    /\ run' = run + 1
    /\ gpc' = "loop"
    /\ spawned' = 0
    /\ tpc' = [i \in Tasks |-> "unstarted"]
    /\ tlocal' = [i \in Tasks |-> <<>>]
    /\ schemas' = IF variant \in Concurrent THEN schemas ELSE <<>>
    /\ wg' = 0
    /\ graph' = NoGraph
    /\ generated' = FALSE
    /\ gerr' = Nil
    /\ UNCHANGED <<variant, fed, gSchemas>>

\* The History annotation generateHistorySchema puts on the history schema
\* it returns (enthistory.go l.229-232, generate.go l.99-102, part_001
\* l.120-123).
HistorySchemaAnnotations_NotExcluded == [exclude |-> FALSE, isHistory |-> TRUE]
HistorySchemaAnnotations == [exclude |-> TRUE, isHistory |-> TRUE]

\* The schemas of the list handed to gen.NewGraph, as the graph built from
\* them presents them to a generator: an input schema as it was, a history
\* schema as generateHistorySchema made it, each with a node and an ID type.
AsInput(list) ==
    [k \in 1..Len(list) |->
        IF \E i \in 1..Len(gSchemas) : gSchemas[i].name = list[k]
            THEN LET i == CHOOSE i \in 1..Len(gSchemas) : gSchemas[i].name = list[k]
                 IN  gSchemas[i]
            ELSE Schema(list[k], HistorySchemaAnnotations.exclude,
                        HistorySchemaAnnotations.isHistory, TRUE, TRUE)]

\* The generator has handed its list to next.Generate without error and is
\* invoked again on the same extension, on the graph built from that list.
FeedBack ==
    /\ ~Crashed
    /\ gpc = "returned"
    /\ gerr = Nil
    /\ generated
    /\ run < MaxRuns
    /\ \A i \in Tasks : tpc[i] \in {"unstarted", "done"}
    /\ run' = run + 1
    /\ fed' = TRUE
    /\ gSchemas' = AsInput(graph)
    /\ gpc' = "loop"
    /\ spawned' = 0
    /\ tpc' = [i \in 1..Len(graph) |-> "unstarted"]
    /\ tlocal' = [i \in 1..Len(graph) |-> <<>>]
    /\ schemas' = IF variant \in Concurrent THEN schemas ELSE <<>>
    /\ wg' = 0
    /\ graph' = NoGraph
    /\ generated' = FALSE
    /\ gerr' = Nil
    /\ UNCHANGED variant

\* The panic of createSchemas has run the deferred calls of its goroutine:
\* the runtime ends the process, the other goroutines having run until then.
fatalpanic(i) ==
    /\ ~Crashed
    /\ tpc[i] = "fatalpanic"
    /\ gpc' = "panic"
    /\ UNCHANGED <<variant, run, fed, gSchemas, spawned, tpc, tlocal, schemas, wg, graph, generated, gerr>>

(***************************************************************************)
(* Part 3: the Schema Derivation Engine                                    *)
(*                                                                         *)
(* One iteration of the loop of GenerateSchemas: shouldGenerate decides    *)
(* whether the schema gets a history schema, generateHistorySchema builds  *)
(* it.  Three revisions are in the source: src/unnamed/part_001 and        *)
(* src/unnamed/part_003 clone the fields of the schema onto the history    *)
(* schema with createHistoryFields, src/generateschemas.go does not;       *)
(* part_001 infers the authorization policy from the schema's name and     *)
(* fields, the other two from its Authz annotation.  Of the config only    *)
(* the members that the derived schema depends on are kept (SchemaName,    *)
(* Query, UpdatedBy are copied into the templateInfo and nowhere else).    *)
(***************************************************************************)
Revisions == {"part_001", "part_003", "generateschemas.go"}
\* The revisions whose generateHistorySchema calls createHistoryFields.
Cloning == {"part_001", "part_003"}

\* Names and table names are Go strings (bytes): "Invoice", "invoice",
\* "Zeta", "zetas" and the suffix "_history".
Invoice == <<73, 110, 118, 111, 105, 99, 101>>
InvoiceTable == <<105, 110, 118, 111, 105, 99, 101>>
ZetaTable == <<122, 101, 116, 97, 115>>
historyTableSuffix == <<95, 104, 105, 115, 116, 111, 114, 121>>

\* The string literals of the Policy Inferencer: "Ref", "ID", "organization",
\* "user", and of its part_001 revision "OwnerID", "OrganizationID",
\* "Organization", "User", "Setting".
StrRef == <<82, 101, 102>>
StrID == <<73, 68>>
StrOrganization == <<111, 114, 103, 97, 110, 105, 122, 97, 116, 105, 111, 110>>
StrUser == <<117, 115, 101, 114>>
StrOwnerID == <<79, 119, 110, 101, 114, 73, 68>>
StrOrganizationID == <<79, 114, 103, 97, 110, 105, 122, 97, 116, 105, 111, 110, 73, 68>>
NameOrganization == <<79, 114, 103, 97, 110, 105, 122, 97, 116, 105, 111, 110>>
NameUser == <<85, 115, 101, 114>>
StrSetting == <<83, 101, 116, 116, 105, 110, 103>>
\* An object type an Authz annotation names: "Org".
StrOrg == <<79, 114, 103>>

ErrUnsupportedIDType == <<"error", "unsupported id type, only int and strings are allowed">>
ErrInvalidSchemaPath == <<"error", "invalid schema path, unable to find package name in path">>
ErrUnmarshal == <<"error", "json: cannot unmarshal">>
ErrTemplate == <<"error", "template: schema.tmpl: execution failed">>

\* ---- load.Field and load.Position ----
Position(index, mixedIn, mixinIndex) ==
    [Index |-> index, MixedIn |-> mixedIn, MixinIndex |-> mixinIndex]

\* The fields the input schemas are made of.  A pointer member (Info, Size)
\* is the value it points to, <<>> for nil.
Amount ==
    [Name |-> "amount", Info |-> "int", Tag |-> "", Size |-> <<>>, Enums |-> <<>>,
     Unique |-> FALSE, Nillable |-> FALSE, Optional |-> FALSE,
     Default |-> TRUE, DefaultValue |-> "0", DefaultKind |-> "int",
     Immutable |-> FALSE, StorageKey |-> "", Position |-> Position(0, FALSE, 0),
     Sensitive |-> FALSE, SchemaType |-> <<>>, Annotations |-> <<>>,
     Comment |-> <<>>]
\* owner_id of the organization-owned mixin, comment "organization"
OwnerID ==
    [Name |-> "owner_id", Info |-> "string", Tag |-> "", Size |-> <<>>, Enums |-> <<>>,
     Unique |-> FALSE, Nillable |-> FALSE, Optional |-> TRUE,
     Default |-> FALSE, DefaultValue |-> "", DefaultKind |-> "",
     Immutable |-> FALSE, StorageKey |-> "", Position |-> Position(0, TRUE, 1),
     Sensitive |-> FALSE, SchemaType |-> <<>>, Annotations |-> <<"EntGQL">>,
     Comment |-> StrOrganization]
\* owner_id of the user-owned mixin, comment "the user that owns the object"
OwnerUser ==
    [OwnerID EXCEPT !.Comment = <<116, 104, 101, 32, 117, 115, 101, 114, 32, 116, 104, 97, 116, 32, 111, 119, 110, 115, 32, 116, 104, 101, 32, 111, 98, 106, 101, 99, 116>>]
\* owner_id declared by the schema itself, comment "the organization id"
OwnerPlain ==
    [OwnerID EXCEPT !.Position = Position(0, FALSE, 0),
                    !.Comment = <<116, 104, 101, 32, 111, 114, 103, 97, 110, 105, 122, 97, 116, 105, 111, 110, 32, 105, 100>>]
Email ==
    [Name |-> "email", Info |-> "string", Tag |-> "json:email", Size |-> <<255>>,
     Enums |-> <<>>,
     Unique |-> TRUE, Nillable |-> FALSE, Optional |-> FALSE,
     Default |-> FALSE, DefaultValue |-> "", DefaultKind |-> "",
     Immutable |-> TRUE, StorageKey |-> "email_address",
     Position |-> Position(0, FALSE, 0),
     Sensitive |-> TRUE, SchemaType |-> <<>>, Annotations |-> <<>>,
     Comment |-> <<99, 111, 110, 116, 97, 99, 116, 32, 97, 100, 100, 114, 101, 115, 115>>]
Status ==
    [Name |-> "status", Info |-> "enum", Tag |-> "", Size |-> <<>>,
     Enums |-> <<"open", "paid">>,
     Unique |-> TRUE, Nillable |-> TRUE, Optional |-> TRUE,
     Default |-> TRUE, DefaultValue |-> "open", DefaultKind |-> "string",
     Immutable |-> FALSE, StorageKey |-> "", Position |-> Position(0, TRUE, 2),
     Sensitive |-> FALSE, SchemaType |-> <<"postgres:varchar">>,
     Annotations |-> <<>>,
     Comment |-> <<115, 116, 97, 116, 101, 32, 111, 102, 32, 116, 104, 101, 32, 105, 110, 118, 111, 105, 99, 101>>]
FieldPool == {Amount, OwnerID, OwnerUser, OwnerPlain, Email, Status}

\* The field lists of the input schemas: at most MaxFields fields of distinct
\* names, Position.Index increasing along the list.
FieldLists ==
    UNION { { [k \in 1..n |-> [s[k] EXCEPT !.Position.Index = k - 1]] :
                s \in { t \in [1..n -> FieldPool] :
                          \A a, b \in 1..n : a # b => t[a].Name # t[b].Name } } :
            n \in 0..MaxFields }

\* ---- the History annotation ----
\* schema.Annotations["History"]: whether the key is there, and the JSON
\* values of its members ("omitted": the member is not in the payload,
\* "1": a JSON value that is not a boolean).
RawValues == {"true", "false", "omitted", "1"}
NoAnnotation == [present |-> FALSE, exclude |-> "omitted", isHistory |-> "omitted"]
HistoryAnnotations ==
    {NoAnnotation} \cup
    { [present |-> TRUE, exclude |-> e, isHistory |-> h] : e, h \in RawValues }

\* encoding/json decoding a value into a bool member of Annotations
UnmarshalBool(v) ==
    CASE v = "true" -> [b |-> TRUE, err |-> Nil]
      [] v \in {"false", "omitted"} -> [b |-> FALSE, err |-> Nil]
      [] OTHER -> [b |-> FALSE, err |-> ErrUnmarshal]

\* jsonUnmarshalAnnotations: the payload marshalled to JSON and unmarshalled
\* into Annotations{Exclude, IsHistory}
jsonUnmarshalAnnotations(a) ==
    LET e == UnmarshalBool(a.exclude)
        h == UnmarshalBool(a.isHistory)
    IN  [annotations |-> [Exclude |-> e.b, IsHistory |-> h.b],
         err |-> IF e.err # Nil THEN e.err ELSE h.err]

\* shouldGenerate with the test of annotations.IsHistory left out
shouldGenerate_IgnoresIsHistory(sch) ==
    IF ~sch.Annotations.History.present
        THEN TRUE
        ELSE LET r == jsonUnmarshalAnnotations(sch.Annotations.History)
             IN  IF r.err # Nil THEN TRUE
                 ELSE IF r.annotations.Exclude THEN FALSE
                 ELSE TRUE

\* shouldGenerate (generateschemas.go:93-119)
shouldGenerate(sch) ==
    IF ~sch.Annotations.History.present
        THEN TRUE
        ELSE LET r == jsonUnmarshalAnnotations(sch.Annotations.History)
             IN  IF r.err # Nil THEN TRUE
                 ELSE IF r.annotations.Exclude THEN FALSE
                 ELSE IF r.annotations.IsHistory THEN FALSE
                 ELSE TRUE

\* ---- Go string functions over bytes ----
\* strings.ToLower on ASCII
ToLower(str) == [k \in 1..Len(str) |-> IF str[k] \in 65..90 THEN str[k] + 32 ELSE str[k]]
\* strings.Contains
Contains(str, substr) ==
    \E k \in 0..(Len(str) - Len(substr)) : SubSeq(str, k + 1, k + Len(substr)) = substr
\* strings.TrimSuffix
TrimSuffix(str, suffix) ==
    IF /\ Len(str) >= Len(suffix)
       /\ SubSeq(str, Len(str) - Len(suffix) + 1, Len(str)) = suffix
        THEN SubSeq(str, 1, Len(str) - Len(suffix))
        ELSE str

\* ---- the Authz annotation ----
\* schema.Annotations["Authz"]: whether the key is there, the strings of
\* ObjectType and IDField ("" when the payload leaves them out) and the JSON
\* value of NillableIDField ("1": a JSON value that is not a boolean).
NoAuthz ==
    [present |-> FALSE, ObjectType |-> <<>>, IDField |-> <<>>, NillableIDField |-> "omitted"]
AuthzAnnotations ==
    {NoAuthz,
     [present |-> TRUE, ObjectType |-> <<>>, IDField |-> <<>>, NillableIDField |-> "1"]}
    \cup
    { [present |-> TRUE, ObjectType |-> o, IDField |-> f, NillableIDField |-> n] :
        o \in {<<>>, StrOrg}, f \in {<<>>, StrID, StrOwnerID}, n \in {"true", "false"} }

ErrNoAuthz == <<"error", "authz annotation not found in schema">>

\* The zero value of entfga.Annotations.
NoAuthzAnnotations == [ObjectType |-> <<>>, IDField |-> <<>>, NillableIDField |-> FALSE]

\* getAuthzAnnotation (generateschemas.go:287-304): the lookup of the key,
\* json.Marshal and json.Unmarshal into entfga.Annotations.
getAuthzAnnotation(sch) ==
    LET a == sch.Annotations.Authz
        n == UnmarshalBool(a.NillableIDField)
    IN  IF ~a.present
            THEN [a |-> NoAuthzAnnotations, err |-> ErrNoAuthz]
        ELSE IF n.err # Nil
            THEN [a |-> [ObjectType |-> a.ObjectType, IDField |-> a.IDField,
                         NillableIDField |-> FALSE],
                  err |-> n.err]
        ELSE [a |-> [ObjectType |-> a.ObjectType, IDField |-> a.IDField,
                     NillableIDField |-> n.b],
              err |-> Nil]

\* isOrgOwned with the test of Position.MixedIn left out
isOrgOwned_IgnoresMixedIn(sch) ==
    \E k \in 1..Len(sch.Fields) :
        /\ sch.Fields[k].Name = "owner_id"
        /\ Contains(sch.Fields[k].Comment, StrOrganization)

\* isOrgOwned (generateschemas.go:254-267): the loop over schema.Fields
RECURSIVE isOrgOwnedFrom(_)
isOrgOwnedFrom(fields) ==
    IF fields = <<>> THEN FALSE
    ELSE IF ~Head(fields).Position.MixedIn THEN isOrgOwnedFrom(Tail(fields))
    ELSE IF Head(fields).Name = "owner_id"
        THEN Contains(Head(fields).Comment, StrOrganization)
    ELSE isOrgOwnedFrom(Tail(fields))

isOrgOwned(sch) == isOrgOwnedFrom(sch.Fields)

\* isUserOwned (generateschemas.go:270-283): the loop over schema.Fields
RECURSIVE isUserOwnedFrom(_)
isUserOwnedFrom(fields) ==
    IF fields = <<>> THEN FALSE
    ELSE IF ~Head(fields).Position.MixedIn THEN isUserOwnedFrom(Tail(fields))
    ELSE IF Head(fields).Name = "owner_id"
        THEN Contains(Head(fields).Comment, StrUser)
    ELSE isUserOwnedFrom(Tail(fields))

isUserOwned(sch) == isUserOwnedFrom(sch.Fields)

\* authzMissing with the policy turned off whether or not the schema
\* declares one
authzMissing_AlwaysDisables(policy, sch) ==
    [policy EXCEPT !.Enabled = FALSE]

\* getAuthzPolicyInfo, lines 219-227: getAuthzAnnotation returned an error.
authzMissing(policy, sch) ==
    IF sch.Policy = <<>> THEN [policy EXCEPT !.Enabled = FALSE] ELSE policy

\* authzObjectType with the object type of the annotation taken as it is
authzObjectType_Verbatim(annotations, sch) == annotations.ObjectType

\* getAuthzPolicyInfo, lines 232-237: default to schema name if object type
\* is not set.
authzObjectType(annotations, sch) ==
    IF annotations.ObjectType = <<>> THEN ToLower(sch.Name) ELSE annotations.ObjectType

\* authzIDField with "ID" handed on as it is
authzIDField_KeepsID(annotations) ==
    IF annotations.IDField = <<>> THEN StrRef ELSE annotations.IDField

\* getAuthzPolicyInfo, lines 239-244: the id is the `ref` field on the
\* history table.
authzIDField(annotations) ==
    IF annotations.IDField = <<>> \/ annotations.IDField = StrID
        THEN StrRef
        ELSE annotations.IDField

\* getAuthzPolicyInfo with the policy enabled for an owned schema only
getAuthzPolicyInfo_OwnedEnables(policy, sch) ==
    LET r == getAuthzAnnotation(sch)
    IN  IF r.err # Nil
            THEN [policy |-> authzMissing(policy, sch), err |-> Nil]
            ELSE [policy |-> [policy EXCEPT
                                !.Enabled = isOrgOwned(sch) \/ isUserOwned(sch),
                                !.NillableIDField = r.a.NillableIDField,
                                !.ObjectType = authzObjectType(r.a, sch),
                                !.IDField = authzIDField(r.a),
                                !.OrgOwned = isOrgOwned(sch),
                                !.UserOwned = isUserOwned(sch)],
                  err |-> Nil]

\* getAuthzPolicyInfo (generateschemas.go:217-251): the receiver's
\* AuthzPolicy as the call leaves it, and the error it returns.
getAuthzPolicyInfo(policy, sch) ==
    LET r == getAuthzAnnotation(sch)
    IN  IF r.err # Nil
            THEN [policy |-> authzMissing(policy, sch), err |-> Nil]
            ELSE [policy |-> [policy EXCEPT
                                !.NillableIDField = r.a.NillableIDField,
                                !.ObjectType = authzObjectType(r.a, sch),
                                !.IDField = authzIDField(r.a),
                                !.OrgOwned = isOrgOwned(sch),
                                !.UserOwned = isUserOwned(sch)],
                  err |-> Nil]

\* hasField (part_001:324-332)
hasField(fields, fieldName) == \E k \in 1..Len(fields) : fields[k].Name = fieldName

\* getAuthzPolicyInfo of part_001 (lines 291-322): the policy is inferred
\* from the name and the fields of the schema.
getAuthzPolicyInfo_part_001(policy, sch) ==
    CASE sch.Name = NameOrganization \/ sch.Name = NameUser ->
            [policy |-> [policy EXCEPT !.IDField = StrRef,
                                       !.ObjectType = ToLower(sch.Name),
                                       !.NillableIDField = FALSE],
             err |-> Nil]
      [] Contains(sch.Name, StrSetting) ->
            [policy |-> [policy EXCEPT !.IDField = TrimSuffix(sch.Name, StrSetting) \o StrID,
                                       !.ObjectType = TrimSuffix(sch.Name, StrSetting),
                                       !.NillableIDField = TRUE],
             err |-> Nil]
      [] hasField(sch.Fields, "organization_id") ->
            [policy |-> [policy EXCEPT !.IDField = StrOrganizationID,
                                       !.ObjectType = StrOrganization,
                                       !.NillableIDField = FALSE],
             err |-> Nil]
      [] hasField(sch.Fields, "owner_id") ->
            [policy |-> [policy EXCEPT !.IDField = StrOwnerID,
                                       !.ObjectType = StrOrganization,
                                       !.NillableIDField = TRUE],
             err |-> Nil]
      [] OTHER ->
            [policy |-> [policy EXCEPT !.Enabled = FALSE], err |-> Nil]

\* ---- getTemplateInfo ----
\* getPkgFromSchemaPath fails on a schema path it cannot take a package from.
getPkgFromSchemaPath(path) ==
    IF path = "./schema" THEN [pkg |-> "schema", err |-> Nil]
    ELSE [pkg |-> "", err |-> ErrInvalidSchemaPath]

\* getIDType: the label of the supported ID types
getIDType(t) ==
    CASE t = "int" -> "Int"
      [] t = "string" -> "String"
      [] OTHER -> "Unsupported"

\* getSchemaTableName: the table name of the original schema
getSchemaTableName(sch) == sch.Table

NoSchema == [Name |-> <<>>, Fields |-> <<>>, Indexes |-> <<>>]
\* The zero value of authzPolicyInfo.
NoPolicy ==
    [Enabled |-> FALSE, ObjectType |-> <<>>, IDField |-> <<>>, AllowedRelation |-> "",
     NillableIDField |-> FALSE, OrgOwned |-> FALSE, UserOwned |-> FALSE]
NoInfo ==
    [Schema |-> NoSchema, IDType |-> "", SchemaPkg |-> "", TableName |-> <<>>,
     OriginalTableName |-> <<>>, WithHistoryTimeIndex |-> FALSE,
     AuthzPolicy |-> NoPolicy, AddPolicy |-> FALSE]

\* getTemplateInfo with the history table named as the original table
getTemplateInfo_OriginalTable(sch, cfg, t) ==
    LET p == getPkgFromSchemaPath(cfg.SchemaPath)
    IN  IF p.err # Nil
            THEN [info |-> NoInfo, err |-> p.err]
            ELSE [info |-> [Schema |-> NoSchema,
                            IDType |-> getIDType(t),
                            SchemaPkg |-> p.pkg,
                            TableName |-> getSchemaTableName(sch),
                            OriginalTableName |-> sch.Name,
                            WithHistoryTimeIndex |-> cfg.HistoryTimeIndex,
                            AuthzPolicy |->
                                [NoPolicy EXCEPT
                                    !.Enabled = cfg.Auth.Enabled,
                                    !.AllowedRelation = cfg.Auth.AllowedRelation],
                            AddPolicy |-> ~cfg.Auth.FirstRun],
                  err |-> Nil]

\* getTemplateInfo (generateschemas.go:122-161)
getTemplateInfo(sch, cfg, t) ==
    LET p == getPkgFromSchemaPath(cfg.SchemaPath)
    IN  IF p.err # Nil
            THEN [info |-> NoInfo, err |-> p.err]
            ELSE [info |-> [Schema |-> NoSchema,
                            IDType |-> getIDType(t),
                            SchemaPkg |-> p.pkg,
                            TableName |-> getSchemaTableName(sch) \o historyTableSuffix,
                            OriginalTableName |-> sch.Name,
                            WithHistoryTimeIndex |-> cfg.HistoryTimeIndex,
                            AuthzPolicy |->
                                [NoPolicy EXCEPT
                                    !.Enabled = cfg.Auth.Enabled,
                                    !.AllowedRelation = cfg.Auth.AllowedRelation],
                            AddPolicy |-> ~cfg.Auth.FirstRun],
                  err |-> Nil]

\* templateInfo of part_001 (lines 23-43, 56-65): its authzPolicyInfo holds
\* Enabled, ObjectType, IDField and NillableIDField, and it has no AddPolicy.
templateInfo_part_001(i) ==
    [Schema |-> i.Schema, IDType |-> i.IDType, SchemaPkg |-> i.SchemaPkg,
     TableName |-> i.TableName, OriginalTableName |-> i.OriginalTableName,
     WithHistoryTimeIndex |-> i.WithHistoryTimeIndex,
     AuthzPolicy |-> [Enabled |-> i.AuthzPolicy.Enabled,
                      ObjectType |-> i.AuthzPolicy.ObjectType,
                      IDField |-> i.AuthzPolicy.IDField,
                      NillableIDField |-> i.AuthzPolicy.NillableIDField]]

\* ---- loadHistorySchema ----
\* A field of the base history schema.
BaseField(name, type, index) ==
    [Name |-> name, Info |-> type, Tag |-> "", Size |-> <<>>, Enums |-> <<>>,
     Unique |-> FALSE, Nillable |-> FALSE, Optional |-> FALSE,
     Default |-> FALSE, DefaultValue |-> "", DefaultKind |-> "",
     Immutable |-> TRUE, StorageKey |-> "", Position |-> Position(index, FALSE, 0),
     Sensitive |-> FALSE, SchemaType |-> <<>>, Annotations |-> <<>>,
     Comment |-> <<>>]

\* loadHistorySchema: the base history schema, with its three fields
\* history_time, ref (of the ID type) and operation; an error for an ID type
\* that is neither Int nor String.
loadHistorySchema(IDType) ==
    IF IDType \notin {"Int", "String"}
        THEN [schema |-> NoSchema, err |-> ErrUnsupportedIDType]
        ELSE [schema |-> [Name |-> <<>>,
                          Fields |-> << BaseField("history_time", "time", 0),
                                        BaseField("ref", IDType, 1),
                                        BaseField("operation", "enum", 2) >>,
                          Indexes |-> <<>>],
              err |-> Nil]

\* ---- createHistoryFields ----
\* newField with the unique flag of the original kept
newField_KeepsUnique(field, i) ==
    [Name |-> field.Name, Info |-> field.Info, Tag |-> field.Tag,
     Size |-> field.Size, Enums |-> field.Enums,
     Unique |-> field.Unique,
     Nillable |-> field.Nillable, Optional |-> field.Optional,
     Default |-> field.Default, DefaultValue |-> field.DefaultValue,
     DefaultKind |-> field.DefaultKind, Immutable |-> field.Immutable,
     StorageKey |-> field.StorageKey,
     Position |-> Position(i, FALSE, 0),
     Sensitive |-> field.Sensitive, SchemaType |-> field.SchemaType,
     Annotations |-> field.Annotations, Comment |-> field.Comment]

\* newField with the comment of the original left out
newField_DropsComment(field, i) ==
    [Name |-> field.Name, Info |-> field.Info, Tag |-> field.Tag,
     Size |-> field.Size, Enums |-> field.Enums,
     Unique |-> FALSE,
     Nillable |-> field.Nillable, Optional |-> field.Optional,
     Default |-> field.Default, DefaultValue |-> field.DefaultValue,
     DefaultKind |-> field.DefaultKind, Immutable |-> field.Immutable,
     StorageKey |-> field.StorageKey,
     Position |-> Position(i, FALSE, 0),
     Sensitive |-> field.Sensitive, SchemaType |-> field.SchemaType,
     Annotations |-> field.Annotations, Comment |-> <<>>]

\* createHistoryFields: the load.Field built for one field of the schema
\* (part_003:219-247).  copyRef copies the value Info and Size point to; the
\* Position copied from the field is overwritten at once by the new one.
newField(field, i) ==
    [Name |-> field.Name, Info |-> field.Info, Tag |-> field.Tag,
     Size |-> field.Size, Enums |-> field.Enums,
     Unique |-> FALSE,
     Nillable |-> field.Nillable, Optional |-> field.Optional,
     Default |-> field.Default, DefaultValue |-> field.DefaultValue,
     DefaultKind |-> field.DefaultKind, Immutable |-> field.Immutable,
     StorageKey |-> field.StorageKey,
     Position |-> Position(i, FALSE, 0),
     Sensitive |-> field.Sensitive, SchemaType |-> field.SchemaType,
     Annotations |-> field.Annotations, Comment |-> field.Comment]

\* createHistoryFields: the loop over schemaFields, i counting up from its
\* start value.
RECURSIVE historyFieldsFrom(_, _)
historyFieldsFrom(schemaFields, i) ==
    IF schemaFields = <<>> THEN <<>>
    ELSE <<newField(Head(schemaFields), i)>> \o historyFieldsFrom(Tail(schemaFields), i + 1)

\* createHistoryFields (part_003:207-254): i := 3
createHistoryFields(schemaFields) == historyFieldsFrom(schemaFields, 3)

\* cloneField with newField the load.Field the loop variable points to
\* instead of a struct of its own: Unique and Position are set in place.
cloneField_InPlace(field, i) ==
    LET changed == [field EXCEPT !.Unique = FALSE, !.Position = Position(i, FALSE, 0)]
    IN  [field |-> changed, newField |-> changed]

\* createHistoryFields, the loop body on the memory it works on: the
\* load.Field the loop variable points to and the load.Position that field
\* points to (part_003:214-250).  newField is a struct value of its own,
\* its members assigned from those of the field; its Position first points
\* to the copy copyRef makes and then to a new load.Position.  Every write
\* is to newField or to what only newField points to.
cloneField(field, i) ==
    LET original == [struct |-> field, position |-> field.Position]
        copied == [struct |-> newField(field, i), position |-> original.position]
        renumbered == [copied EXCEPT !.position = Position(i, FALSE, 0)]
    IN  [field |-> [original.struct EXCEPT !.Position = original.position],
         newField |-> [renumbered.struct EXCEPT !.Position = renumbered.position]]

\* createHistoryFields: the fields schemaFields points to, after the loop.
RECURSIVE schemaFieldsFrom(_, _)
schemaFieldsFrom(schemaFields, i) ==
    IF schemaFields = <<>> THEN <<>>
    ELSE <<cloneField(Head(schemaFields), i).field>> \o schemaFieldsFrom(Tail(schemaFields), i + 1)

\* The schema after createHistoryFields(schema.Fields) (part_003:162).
schemaAfterClone(sch) == [sch EXCEPT !.Fields = schemaFieldsFrom(sch.Fields, 3)]

\* generateHistorySchemaErr with the error of loadHistorySchema not looked at
generateHistorySchemaErr_IgnoresLoadErr(t, loaded, authz) ==
    IF t.err # Nil THEN t.err ELSE authz.err

\* generateHistorySchema, lines 165-182: the first error of getTemplateInfo,
\* loadHistorySchema and getAuthzPolicyInfo, on which it returns at once.
generateHistorySchemaErr(t, loaded, authz) ==
    IF t.err # Nil THEN t.err
    ELSE IF loaded.err # Nil THEN loaded.err
    ELSE authz.err

\* ---- the loop of GenerateSchemas ----
\* GenerateSchemas: the test of the loop body.
GenerateSchemas ==
    /\ dpc = "shouldGenerate"
    /\ include' = shouldGenerate(schema)
    /\ dpc' = IF shouldGenerate(schema) THEN "generateHistorySchema" ELSE "skipped"
    /\ UNCHANGED <<revision, schema, config, idType, info, historySchema, derr>>

\* generateHistorySchema: getTemplateInfo, loadHistorySchema, the index on
\* history_time, the cloned fields (part_001 and part_003 only, which leave
\* the schema as createHistoryFields leaves it), the policy
\* of an extension with authorization enabled, the name, and the rendering of
\* the schema file by parseSchemaTemplate, which may fail.
generateHistorySchema ==
    /\ dpc = "generateHistorySchema"
    /\ LET t0 == getTemplateInfo(schema, config, idType)
           t == IF revision = "part_001"
                   THEN [info |-> templateInfo_part_001(t0.info), err |-> t0.err]
                   ELSE t0
           loaded == loadHistorySchema(t.info.IDType)
           historyFields ==
               IF revision \in Cloning THEN createHistoryFields(schema.Fields) ELSE <<>>
           cloned == IF revision \in Cloning THEN schemaAfterClone(schema) ELSE schema
           authz ==
               IF ~t.info.AuthzPolicy.Enabled
                   THEN [policy |-> t.info.AuthzPolicy, err |-> Nil]
               ELSE IF revision = "part_001"
                   THEN getAuthzPolicyInfo_part_001(t.info.AuthzPolicy, cloned)
               ELSE getAuthzPolicyInfo(t.info.AuthzPolicy, cloned)
           derived ==
               [Name |-> HistoryName(schema.Name),
                Fields |-> loaded.schema.Fields \o historyFields,
                Indexes |-> IF t.info.WithHistoryTimeIndex
                              THEN Append(loaded.schema.Indexes, <<"history_time">>)
                              ELSE loaded.schema.Indexes]
           e == generateHistorySchemaErr(t, loaded, authz)
       IN  /\ IF e # Nil
                THEN /\ derr' = e
                     /\ dpc' = "failed"
                     /\ UNCHANGED <<info, historySchema>>
                ELSE /\ historySchema' = derived
                     /\ info' = [t.info EXCEPT !.Schema = derived,
                                               !.AuthzPolicy = authz.policy]
                     /\ \/ derr' = Nil /\ dpc' = "derived"
                        \/ derr' = ErrTemplate /\ dpc' = "failed"
           /\ schema' = IF t.err = Nil /\ loaded.err = Nil THEN cloned ELSE schema
    /\ UNCHANGED <<revision, config, idType, include>>

HookIdle ==
    /\ m = [c \in Callers |-> NoMutation]
    /\ stack = [c \in Callers |-> <<>>]
    /\ ret = [c \in Callers |-> [value |-> Nil, err |-> Nil]]
    /\ log = [c \in Callers |-> <<>>]
    /\ entity = [exists |-> FALSE, ver |-> 0]
    /\ history = <<>>
    /\ started = 0

GenIdle ==
    /\ variant = "none"
    /\ run = 0
    /\ fed = FALSE
    /\ gSchemas = <<>>
    /\ gpc = "idle"
    /\ spawned = 0
    /\ tpc = <<>>
    /\ tlocal = <<>>
    /\ schemas = <<>>
    /\ wg = 0
    /\ graph = NoGraph
    /\ generated = FALSE
    /\ gerr = Nil

DeriveIdle ==
    /\ revision = "none"
    /\ schema = [Name |-> <<>>, Table |-> <<>>,
                 Annotations |-> [History |-> NoAnnotation, Authz |-> NoAuthz],
                 Fields |-> <<>>, Policy |-> <<>>]
    /\ config = [SchemaPath |-> "", HistoryTimeIndex |-> FALSE,
                 Auth |-> [Enabled |-> FALSE, FirstRun |-> FALSE, AllowedRelation |-> ""]]
    /\ idType = ""
    /\ dpc = "idle"
    /\ include = FALSE
    /\ info = NoInfo
    /\ historySchema = NoSchema
    /\ derr = Nil

\* GenerateSchemas has loaded the graph and enters its loop body with one
\* of the schemas.  A schema carries a History annotation or an Authz
\* annotation or neither; part_001 reads neither the Authz annotation nor
\* schema.Policy, which are left out of its inputs.
DeriveInit ==
    /\ revision \in Revisions
    /\ \E n \in {<<Invoice, InvoiceTable>>, <<Zeta, ZetaTable>>} :
       \E a \in HistoryAnnotations :
       \E z \in AuthzAnnotations :
       \E f \in FieldLists :
       \E p \in {<<>>, <<Position(0, FALSE, 0)>>} :
           /\ a = NoAnnotation \/ z = NoAuthz
           /\ revision = "part_001" => (z = NoAuthz /\ p = <<>>)
           /\ schema = [Name |-> n[1], Table |-> n[2],
                        Annotations |-> [History |-> a, Authz |-> z],
                        Fields |-> f, Policy |-> p]
    /\ config \in [SchemaPath : {"./schema", ""}, HistoryTimeIndex : BOOLEAN,
                   Auth : [Enabled : BOOLEAN, FirstRun : {FALSE},
                           AllowedRelation : {"can_view"}]]
    /\ idType \in {"int", "string", "bool"}
    /\ dpc = "shouldGenerate"
    /\ include = FALSE
    /\ info = NoInfo
    /\ historySchema = NoSchema
    /\ derr = Nil

\* The extension is new and the generator it returns is invoked for the
\* first time.
GenInit ==
    /\ variant \in Variants
    /\ run = 1
    /\ fed = FALSE
    /\ gSchemas \in InputSets
    /\ gpc = "loop"
    /\ spawned = 0
    /\ tpc = [i \in 1..Len(Names) |-> "unstarted"]
    /\ tlocal = [i \in 1..Len(Names) |-> <<>>]
    /\ schemas = <<>>
    /\ wg = 0
    /\ graph = NoGraph
    /\ generated = FALSE
    /\ gerr = Nil

Init == HookInit /\ GenIdle /\ DeriveIdle

Next ==
    \E c \in Callers :
        \/ Begin(c) /\ UNCHANGED <<genVars, deriveVars>>
        \/ On(c) /\ UNCHANGED <<genVars, deriveVars>>
        \/ OnReturn(c) /\ UNCHANGED <<genVars, deriveVars>>
        \/ Mutate(c) /\ UNCHANGED <<genVars, deriveVars>>
        \/ historyHookCreate(c) /\ UNCHANGED <<genVars, deriveVars>>
        \/ historyHookCreateHistory(c) /\ UNCHANGED <<genVars, deriveVars>>
        \/ historyHookUpdate(c) /\ UNCHANGED <<genVars, deriveVars>>
        \/ historyHookDelete(c) /\ UNCHANGED <<genVars, deriveVars>>
        \/ historyHookReturn(c) /\ UNCHANGED <<genVars, deriveVars>>

Spec == Init /\ [][Next]_vars

InitGen == HookIdle /\ GenInit /\ DeriveIdle

NextGen ==
    \/ Spawn /\ UNCHANGED <<hookVars, deriveVars>>
    \/ LoopBody /\ UNCHANGED <<hookVars, deriveVars>>
    \/ LoopEnd /\ UNCHANGED <<hookVars, deriveVars>>
    \/ Wait /\ UNCHANGED <<hookVars, deriveVars>>
    \/ NewGraph /\ UNCHANGED <<hookVars, deriveVars>>
    \/ Generate /\ UNCHANGED <<hookVars, deriveVars>>
    \/ \E i \in Tasks : createSchemas(i) /\ UNCHANGED <<hookVars, deriveVars>>
    \/ \E i \in Tasks : AppendStore(i) /\ UNCHANGED <<hookVars, deriveVars>>
    \/ \E i \in Tasks : SortLoad(i) /\ UNCHANGED <<hookVars, deriveVars>>
    \/ \E i \in Tasks : SortStore(i) /\ UNCHANGED <<hookVars, deriveVars>>
    \/ \E i \in Tasks : WgDone(i) /\ UNCHANGED <<hookVars, deriveVars>>
    \/ \E i \in Tasks : fatalpanic(i) /\ UNCHANGED <<hookVars, deriveVars>>
    \/ Invoke /\ UNCHANGED <<hookVars, deriveVars>>

SpecGen == InitGen /\ [][NextGen]_vars

\* The sequential coordinator (enthistory.go), invoked again on the graph
\* built from the list it has handed over.
InitFeed == InitGen /\ variant = "enthistory.go"

NextFeed ==
    \/ LoopBody /\ UNCHANGED <<hookVars, deriveVars>>
    \/ LoopEnd /\ UNCHANGED <<hookVars, deriveVars>>
    \/ NewGraph /\ UNCHANGED <<hookVars, deriveVars>>
    \/ Generate /\ UNCHANGED <<hookVars, deriveVars>>
    \/ FeedBack /\ UNCHANGED <<hookVars, deriveVars>>

SpecFeed == InitFeed /\ [][NextFeed]_vars

InitDerive == HookIdle /\ GenIdle /\ DeriveInit

NextDerive ==
    \/ GenerateSchemas /\ UNCHANGED <<hookVars, genVars>>
    \/ generateHistorySchema /\ UNCHANGED <<hookVars, genVars>>

SpecDerive == InitDerive /\ [][NextDerive]_vars

(***************************************************************************)
(* Claims about the Mutation Hook Dispatcher (checked under Spec)          *)
(***************************************************************************)
HistoryCallbacks ==
    {"CreateHistoryFromCreate", "CreateHistoryFromUpdate", "CreateHistoryFromDelete"}
Calls(c, evs) == {k \in 1..Len(log[c]) : log[c][k].ev \in evs}
Failed(c, evs) == {k \in Calls(c, evs) : log[c][k].err # Nil}
Succeeded(c, evs) == {k \in Calls(c, evs) : log[c][k].err = Nil}
Returned(c, value, err) == Done(c) => ret[c] = [value |-> value, err |-> err]
MatchingCallback(op) ==
    CASE op = OpCreate -> "CreateHistoryFromCreate"
      [] op \in {OpUpdate, OpUpdateOne} -> "CreateHistoryFromUpdate"
      [] OTHER -> "CreateHistoryFromDelete"

\* C1: in a Create mutation every call of CreateHistoryFromCreate comes after a
\* call of the underlying mutation that returned no error; when the underlying
\* create failed no history callback is in the mutation's calls and the hook
\* returns (nil, that error).
C1_CreateThenHistory ==
    \A c \in Callers :
        m[c].op = OpCreate =>
            /\ \A k \in Calls(c, {"CreateHistoryFromCreate"}) :
                  /\ \E j \in Succeeded(c, {"Mutate"}) : j < k
                  /\ Failed(c, {"Mutate"}) = {}
            /\ \A j \in Failed(c, {"Mutate"}) :
                  /\ Calls(c, HistoryCallbacks) = {}
                  /\ Returned(c, Nil, log[c][j].err)

C1_Witness ==
    \E c, d \in Callers :
        /\ Done(c) /\ m[c].op = OpCreate
        /\ Succeeded(c, {"Mutate"}) # {}
        /\ Succeeded(c, {"CreateHistoryFromCreate"}) # {}
        /\ Done(d) /\ m[d].op = OpCreate
        /\ Failed(d, {"Mutate"}) # {}

\* C2: in an Update or UpdateOne mutation every call of the underlying mutation
\* comes after a successful CreateHistoryFromUpdate; when the history write
\* failed the underlying update is not called and the hook returns that error.
C2_UpdateHistoryFirst ==
    \A c \in Callers :
        m[c].op \in {OpUpdate, OpUpdateOne} =>
            /\ \A k \in Calls(c, {"Mutate"}) :
                  \E j \in Succeeded(c, {"CreateHistoryFromUpdate"}) : j < k
            /\ \A j \in Failed(c, {"CreateHistoryFromUpdate"}) :
                  /\ Calls(c, {"Mutate", "hook.next.Mutate"}) = {}
                  /\ Returned(c, Nil, log[c][j].err)

C2_Witness ==
    \E c, d \in Callers :
        /\ Done(c) /\ m[c].op = OpUpdateOne
        /\ Succeeded(c, {"Mutate"}) # {}
        /\ Done(d) /\ m[d].op = OpUpdate
        /\ Failed(d, {"CreateHistoryFromUpdate"}) # {}

\* C3: in a Delete or DeleteOne mutation every call of the underlying mutation
\* comes after a successful CreateHistoryFromDelete, and the delete row of the
\* history table is written before this mutation's delete ran: when the
\* mutation is the only one and the row existed, the history row shows it
\* existing. When the history write failed the underlying delete is not called
\* and the hook returns that error.
C3_DeleteHistoryFirst ==
    \A c \in Callers :
        m[c].op \in {OpDelete, OpDeleteOne} =>
            /\ \A k \in Calls(c, {"Mutate"}) :
                  \E j \in Succeeded(c, {"CreateHistoryFromDelete"}) : j < k
            /\ \A k \in Calls(c, {"CreateHistoryFromDelete"}) :
                  \A j \in Calls(c, {"Mutate"}) : k < j
            /\ (started = 1 /\ entity.ver = 1) =>
                  \A r \in 1..Len(history) :
                      history[r].operation = "delete" => history[r].exists
            /\ \A j \in Failed(c, {"CreateHistoryFromDelete"}) :
                  /\ Calls(c, {"Mutate", "hook.next.Mutate"}) = {}
                  /\ Returned(c, Nil, log[c][j].err)

C3_Witness ==
    \E c \in Callers :
        /\ started = 1 /\ entity.ver = 1
        /\ Done(c) /\ m[c].op = OpDeleteOne
        /\ Succeeded(c, {"Mutate"}) # {}
        /\ ~entity.exists
        /\ Len(history) = 1 /\ history[1].operation = "delete" /\ history[1].exists

\* C4: when the chain returns without error, exactly one history callback was
\* called, once, and it is the one matching the mutation's operation.
C4_ExactlyOneMatchingCallback ==
    \A c \in Callers :
        (Done(c) /\ ret[c].err = Nil) =>
            /\ Cardinality(Calls(c, HistoryCallbacks)) = 1
            /\ Calls(c, HistoryCallbacks) = Succeeded(c, {MatchingCallback(m[c].op)})

C4_Witness ==
    \E c, d \in Callers :
        /\ Done(c) /\ ret[c].err = Nil /\ m[c].op = OpCreate
        /\ Done(d) /\ ret[d].err = Nil /\ m[d].op = OpUpdateOne

\* C5: a mutation that fails the type assertion gets an error from the hook;
\* neither the underlying mutation nor a history callback is called.
C5_UntypedFailsFast ==
    \A c \in Callers :
        (m[c] # NoMutation /\ ~m[c].typed) =>
            /\ Calls(c, {"Mutate", "hook.next.Mutate"} \cup HistoryCallbacks) = {}
            /\ Returned(c, Nil, ErrTypedMutation)

C5_Witness ==
    \E c, d \in Callers :
        /\ Done(c) /\ ~m[c].typed /\ m[c].op = OpCreate
        /\ Done(d) /\ ~m[d].typed /\ m[d].op = OpDelete
        /\ Failed(c, {"getTypedMutation"}) # {}
        /\ Failed(d, {"getTypedMutation"}) # {}

\* The interceptors of the chain whose operation mask does not meet op.
Inactive(op) == {i \in 1..Len(HistoryHooks) : ~Is(op, HistoryHooks[i].op)}
At(c, evs, i) == {k \in Calls(c, evs) : log[c][k].hook = i}
\* Interceptor i was handed the mutation: it is the outermost one, or the
\* interceptor or hook before it called its next mutator.
Entered(c, i) ==
    /\ m[c] # NoMutation
    /\ i > 1 => At(c, {"next.Mutate", "hook.next.Mutate"}, i - 1) # {}
OnStack(c, i) ==
    \E k \in 1..Len(stack[c]) : stack[c][k].fn = "On" /\ stack[c][k].hook = i

\* C6 (state part): an interceptor whose mask does not meet the mutation's
\* operation never runs its hook, its type assertion or its history callback,
\* and calls the next mutator at most once (exactly once when it has returned).
C6_InactivePassesThrough ==
    \A c \in Callers :
        \A i \in Inactive(m[c].op) :
            /\ At(c, {"hk.Mutate", "getTypedMutation", "hook.next.Mutate"}
                         \cup HistoryCallbacks, i) = {}
            /\ Cardinality(At(c, {"next.Mutate"}, i)) <= 1
            /\ (Entered(c, i) /\ ~OnStack(c, i)) =>
                  Cardinality(At(c, {"next.Mutate"}, i)) = 1

\* C6 (step part): when an interceptor returns, the result is the one its
\* callee returned, and an inactive interceptor hands the same mutation on.
C6_ReturnsUnchanged ==
    \A c \in Callers :
        (Running(c, "On", "return") /\ stack'[c] # stack[c]) =>
            /\ ret'[c] = ret[c]
            /\ m'[c] = m[c]

\* C6: an interceptor built by On runs its hook only when the operation meets
\* its mask; otherwise it calls the next mutator once with the same mutation,
\* runs no type assertion and no history callback of its own, and returns the
\* next mutator's result unchanged.
C6_OnFilters == []C6_InactivePassesThrough /\ [][C6_ReturnsUnchanged]_vars

C6_Witness ==
    \E c \in Callers :
        /\ Done(c) /\ m[c].op = OpDeleteOne /\ ret[c].err = Nil
        /\ Cardinality(Calls(c, {"next.Mutate"})) = 2
        /\ Cardinality(Calls(c, {"hk.Mutate"})) = 1

\* C7 (state part): after CreateHistoryFromCreate failed the hook returns
\* (nil, that error), and nothing is called after the failure.
C7_CreateHistoryFailure ==
    \A c \in Callers :
        \A j \in Failed(c, {"CreateHistoryFromCreate"}) :
            /\ Succeeded(c, {"Mutate"}) # {}
            /\ j = Len(log[c])
            /\ Returned(c, Nil, log[c][j].err)

\* C7 (step part): the step in which the history write fails, and every later
\* step of that mutation, leaves the entity as the underlying create wrote it.
C7_NoUndo ==
    \A c \in Callers :
        (/\ \E j \in 1..Len(log'[c]) :
                log'[c][j] = Event("CreateHistoryFromCreate", 1, ErrHistory)
         /\ m'[c] = m[c]
         /\ stack'[c] # stack[c]) => entity' = entity

\* C7: if CreateHistoryFromCreate fails after the underlying create succeeded,
\* the hook returns nil with that error and does not undo the create.
C7_NoRollback == []C7_CreateHistoryFailure /\ [][C7_NoUndo]_vars

\* the entity exists and the history table has no row
C7_Witness ==
    \E c \in Callers :
        /\ Done(c) /\ m[c].op = OpCreate
        /\ Failed(c, {"CreateHistoryFromCreate"}) # {}
        /\ ret[c] = [value |-> Nil, err |-> ErrHistory]
        /\ entity.exists
        /\ history = <<>>

\* C8: within one mutation the underlying mutation and each history callback
\* are called at most once; an error is the last call of the mutation, and the
\* chain returns (nil, that error).
C8_NoRetryNoRecovery ==
    \A c \in Callers :
        /\ Cardinality(Calls(c, {"Mutate"})) <= 1
        /\ \A h \in HistoryCallbacks : Cardinality(Calls(c, {h})) <= 1
        /\ \A k \in 1..Len(log[c]) :
              log[c][k].err # Nil =>
                  /\ k = Len(log[c])
                  /\ Returned(c, Nil, log[c][k].err)

C8_Witness ==
    \E c, d \in Callers :
        /\ Done(c) /\ m[c].op = OpUpdate
        /\ Failed(c, {"Mutate"}) # {}
        /\ Succeeded(c, {"CreateHistoryFromUpdate"}) # {}
        /\ ret[c].err = ErrMutate
        /\ Done(d) /\ Failed(d, {"getTypedMutation"}) # {}

(***************************************************************************)
(* Claims about the concurrent Generation Coordinator (checked under       *)
(* SpecGen)                                                                *)
(***************************************************************************)
\* Goroutine i has loaded h.schemas for its append and not yet stored the result.
InAppend(i) == tpc[i] = "append"
Includable(sch) == ~sch.exclude /\ ~sch.isHistory /\ sch.hasID /\ sch.derives

\* C9: no two createSchemas goroutines are at the same time between the load
\* and the store of their append to h.schemas.
C9_AppendSynchronized ==
    Cardinality({i \in Tasks : InAppend(i)}) <= 1

\* C10: when every input schema is includable, the list handed to gen.NewGraph
\* by the latest revision (part_001) is each schema and its history schema
\* once, in name order, whatever the interleaving of the goroutines.
C10_DeterministicResult ==
    (/\ variant = "part_001"
     /\ \A i \in Tasks : Includable(gSchemas[i])
     /\ graph # NoGraph) =>
        graph = << Alpha, HistoryName(Alpha), Mu, HistoryName(Mu),
                   Zeta, HistoryName(Zeta) >>

\* The names in s are in strictly ascending order of Go's string comparison.
StrictlySorted(s) == \A k \in 1..(Len(s) - 1) : StrLess(s[k], s[k + 1])
Range(s) == {s[k] : k \in 1..Len(s)}
AllTasksDone == \A i \in Tasks : tpc[i] = "done"
\* Deriving the schema fails: it is not excluded and has no ID type, or
\* generateHistorySchema returns an error for it.
Fails(sch) == ~sch.exclude /\ (~sch.hasID \/ ~sch.derives)

\* C11: in the concurrent revisions, once every createSchemas goroutine has
\* finished, the list handed to gen.NewGraph is in strictly ascending order of
\* schema name, whatever the input schemas and whichever goroutine ends last.
C11_SortedResult ==
    (variant \in Concurrent /\ AllTasksDone /\ graph # NoGraph) =>
        StrictlySorted(graph)

\* C12: in the concurrent revisions, gen.NewGraph has been called only when
\* every createSchemas goroutine has finished and the list it is given holds
\* what each of them appends.
C12_GraphAfterAllTasks ==
    (variant \in Concurrent /\ graph # NoGraph) =>
        /\ AllTasksDone
        /\ \A i \in Tasks : Range(Appended(gSchemas[i])) \subseteq Range(graph)

\* C13: when the derivation of some input schema fails, next.Generate is not
\* invoked in that run.
C13_FailureAborts ==
    (\E i \in 1..Len(gSchemas) : Fails(gSchemas[i])) => ~generated

\* C15: no revision of the coordinator derives a history schema from a schema
\* annotated isHistory: h.schemas never holds <Name>HistoryHistory.
C15_NoHistoryOfHistory ==
    \A i \in 1..Len(gSchemas) :
        gSchemas[i].isHistory => HistoryName(gSchemas[i].name) \notin Range(schemas)

\* C16: the list handed to gen.NewGraph holds the input schemas that are not
\* excluded and the history schema of each includable schema, each once, and
\* nothing else.
C16_ResultSet ==
    graph # NoGraph =>
        /\ Range(graph) =
              {gSchemas[i].name : i \in {j \in 1..Len(gSchemas) : ~gSchemas[j].exclude}}
              \cup {HistoryName(gSchemas[i].name) :
                      i \in {j \in 1..Len(gSchemas) : Includable(gSchemas[j])}}
        /\ Cardinality(Range(graph)) = Len(graph)

(***************************************************************************)
(* Claims about the Schema Derivation Engine (checked under SpecDerive)    *)
(***************************************************************************)
\* encoding/json can decode the payload of the annotation into Annotations.
Parsable(a) ==
    /\ a.exclude \in {"true", "false", "omitted"}
    /\ a.isHistory \in {"true", "false", "omitted"}
\* shouldGenerate has returned for the schema.
Decided == dpc \in {"generateHistorySchema", "skipped", "derived", "failed"}
\* A history schema has been built from the schema.
Built == dpc = "derived" \/ (dpc = "failed" /\ derr = ErrTemplate)

\* C14: shouldGenerate returns false exactly when the schema has a History
\* annotation that parses and whose exclude or isHistory is true; it returns
\* true without an annotation and with one that does not parse.
C14_ShouldGenerate ==
    Decided =>
        /\ include = FALSE <=>
              /\ schema.Annotations.History.present
              /\ Parsable(schema.Annotations.History)
              /\ (schema.Annotations.History.exclude = "true" \/ schema.Annotations.History.isHistory = "true")
        /\ ~schema.Annotations.History.present => include = TRUE
        /\ ~Parsable(schema.Annotations.History) => include = TRUE

\* shouldGenerate returned false for a schema whose annotation has isHistory
\* true and exclude false.
C14_Witness ==
    /\ dpc = "skipped"
    /\ include = FALSE
    /\ schema.Annotations.History.isHistory = "true"
    /\ schema.Annotations.History.exclude = "false"

\* C17: the history schema derived from a schema of N fields has N + 3
\* fields: history_time, ref, operation, then the clones of the N fields in
\* input order at Position.Index 3..N+2, none mixed in.
C17_FieldLayout ==
    dpc = "derived" =>
        /\ Len(historySchema.Fields) = Len(schema.Fields) + 3
        /\ historySchema.Fields[1].Name = "history_time"
        /\ historySchema.Fields[2].Name = "ref"
        /\ historySchema.Fields[3].Name = "operation"
        /\ \A k \in 1..Len(schema.Fields) :
              /\ historySchema.Fields[3 + k].Name = schema.Fields[k].Name
              /\ historySchema.Fields[3 + k].Position.Index = k + 2
              /\ historySchema.Fields[3 + k].Position.MixedIn = FALSE

\* C18: every field createHistoryFields returns has unique = false.
C18_ClonesNotUnique ==
    (revision \in Cloning /\ Built) =>
        \A k \in 1..Len(schema.Fields) : historySchema.Fields[3 + k].Unique = FALSE

\* A unique field has been cloned.
C18_Witness ==
    /\ revision = "part_003"
    /\ dpc = "derived"
    /\ \E k \in 1..Len(schema.Fields) :
          /\ schema.Fields[k].Unique
          /\ ~schema.Fields[k].Position.MixedIn
          /\ historySchema.Fields[3 + k].Unique = FALSE

\* C19: the field createHistoryFields returns for a field F equals F in every
\* member but Unique and Position.
C19_CloneKeepsProperties ==
    (revision \in Cloning /\ Built) =>
        \A k \in 1..Len(schema.Fields) :
            \A member \in DOMAIN schema.Fields[k] \ {"Unique", "Position"} :
                historySchema.Fields[3 + k][member] = schema.Fields[k][member]

\* A mixed-in unique field with a comment, a default and a schema type has
\* been cloned: the clone differs from it in Unique and Position.
C19_Witness ==
    /\ revision = "part_003"
    /\ dpc = "derived"
    /\ \E k \in 1..Len(schema.Fields) :
          /\ schema.Fields[k] = [Status EXCEPT !.Position.Index = k - 1]
          /\ historySchema.Fields[3 + k].Comment =
                 <<115, 116, 97, 116, 101, 32, 111, 102, 32, 116, 104, 101, 32, 105, 110, 118, 111, 105, 99, 101>>
          /\ historySchema.Fields[3 + k].Unique # schema.Fields[k].Unique
          /\ historySchema.Fields[3 + k].Position # schema.Fields[k].Position

\* C20: the derived schema is named <Name>History and its table
\* <table>_history: table "invoice" gives "invoice_history".
C20_Names ==
    Built =>
        /\ historySchema.Name = schema.Name \o <<72, 105, 115, 116, 111, 114, 121>>
        /\ info.Schema.Name = historySchema.Name
        /\ info.TableName = schema.Table \o <<95, 104, 105, 115, 116, 111, 114, 121>>
        /\ schema.Table = <<105, 110, 118, 111, 105, 99, 101>> =>
              info.TableName = <<105, 110, 118, 111, 105, 99, 101,
                                 95, 104, 105, 115, 116, 111, 114, 121>>

\* InvoiceHistory with table invoice_history has been derived from Invoice.
C20_Witness ==
    /\ dpc = "derived"
    /\ schema.Name = Invoice
    /\ historySchema.Name = <<73, 110, 118, 111, 105, 99, 101,
                              72, 105, 115, 116, 111, 114, 121>>
    /\ info.TableName = <<105, 110, 118, 111, 105, 99, 101,
                          95, 104, 105, 115, 116, 111, 114, 121>>

\* The Policy Inferencer of part_003 and generateschemas.go has run for the
\* schema: the extension has authorization enabled and generateHistorySchema
\* went past it.
Inferred == Built /\ revision # "part_001" /\ config.Auth.Enabled
\* encoding/json can decode the Authz annotation the schema carries.
AuthzParsed ==
    /\ schema.Annotations.Authz.present
    /\ schema.Annotations.Authz.NillableIDField \in {"true", "false", "omitted"}

\* C21: when the schema carries an Authz annotation (one that decodes), the
\* descriptor's IDField is "Ref" if the annotation's IDField is "ID" or
\* empty, and the annotation's IDField for every other value.
C21_IDField ==
    (Inferred /\ AuthzParsed) =>
        info.AuthzPolicy.IDField =
            IF schema.Annotations.Authz.IDField \in {<<>>, <<73, 68>>}
                THEN <<82, 101, 102>>
                ELSE schema.Annotations.Authz.IDField

\* The annotation's IDField "ID" has become "Ref".
C21_Witness ==
    /\ dpc = "derived"
    /\ Inferred /\ AuthzParsed
    /\ schema.Annotations.Authz.IDField = <<73, 68>>
    /\ info.AuthzPolicy.IDField = <<82, 101, 102>>

\* C22 as stated: with an Authz annotation the descriptor's ObjectType and
\* NillableIDField are those of the annotation, an empty ObjectType included.
C22_Verbatim ==
    (Inferred /\ AuthzParsed) =>
        /\ info.AuthzPolicy.ObjectType = schema.Annotations.Authz.ObjectType
        /\ info.AuthzPolicy.NillableIDField =
              (schema.Annotations.Authz.NillableIDField = "true")

\* C22: with an Authz annotation the descriptor's NillableIDField is the
\* annotation's; its ObjectType is the annotation's when that is not empty,
\* and the lower-cased schema name ("invoice" for Invoice) when it is empty.
C22_ObjectType ==
    (Inferred /\ AuthzParsed) =>
        /\ info.AuthzPolicy.NillableIDField =
              (schema.Annotations.Authz.NillableIDField = "true")
        /\ schema.Annotations.Authz.ObjectType # <<>> =>
              info.AuthzPolicy.ObjectType = schema.Annotations.Authz.ObjectType
        /\ schema.Annotations.Authz.ObjectType = <<>> =>
              /\ Len(info.AuthzPolicy.ObjectType) = Len(schema.Name)
              /\ \A k \in 1..Len(schema.Name) :
                    info.AuthzPolicy.ObjectType[k] =
                        IF schema.Name[k] \in 65..90 THEN schema.Name[k] + 32
                                                     ELSE schema.Name[k]
              /\ schema.Name = Invoice =>
                    info.AuthzPolicy.ObjectType = <<105, 110, 118, 111, 105, 99, 101>>

\* An annotation with an empty ObjectType and a true NillableIDField on
\* Invoice has given the object type "invoice".
C22_Witness ==
    /\ dpc = "derived"
    /\ Inferred /\ AuthzParsed
    /\ schema.Name = Invoice
    /\ schema.Annotations.Authz.ObjectType = <<>>
    /\ schema.Annotations.Authz.NillableIDField = "true"
    /\ info.AuthzPolicy.ObjectType = <<105, 110, 118, 111, 105, 99, 101>>
    /\ info.AuthzPolicy.NillableIDField

\* generateHistorySchema has returned for a schema for which getTemplateInfo
\* and loadHistorySchema succeed.
Derivable == config.SchemaPath = "./schema" /\ idType \in {"int", "string"}
Returned_generateHistorySchema == dpc \in {"derived", "failed"}

\* C23: for a schema without Authz annotation the descriptor's Enabled is
\* false if schema.Policy is nil and is config.Auth.Enabled if the schema
\* declares a policy; the inference returns no error, so that the history
\* schema is built.
C23_NoAnnotation ==
    (/\ Returned_generateHistorySchema
     /\ Derivable
     /\ revision # "part_001"
     /\ ~schema.Annotations.Authz.present) =>
        /\ Built
        /\ derr \in {Nil, ErrTemplate}
        /\ schema.Policy = <<>> => info.AuthzPolicy.Enabled = FALSE
        /\ schema.Policy # <<>> => info.AuthzPolicy.Enabled = config.Auth.Enabled

\* With authorization enabled, a schema without annotation and without
\* policy has been derived with the policy turned off.
C23_Witness ==
    /\ dpc = "derived"
    /\ Inferred
    /\ ~schema.Annotations.Authz.present
    /\ schema.Policy = <<>>
    /\ info.AuthzPolicy.Enabled = FALSE
    /\ derr = Nil

\* The owner_id fields of the schema.
OwnerFields == {k \in 1..Len(schema.Fields) : schema.Fields[k].Name = "owner_id"}

C25_EndToEnd ==
    (/\ dpc = "derived"
     /\ schema.Name = Invoice
     /\ schema.Table = InvoiceTable
     /\ Len(schema.Fields) = 2
     /\ schema.Fields[1].Name = "amount"
     /\ schema.Fields[2] = [OwnerID EXCEPT !.Position.Index = 1]
     /\ config.Auth.Enabled
     /\ ~schema.Annotations.Authz.present
     /\ schema.Policy = <<>>) =>
        /\ historySchema.Name = <<73, 110, 118, 111, 105, 99, 101,
                                  72, 105, 115, 116, 111, 114, 121>>
        /\ info.TableName = <<105, 110, 118, 111, 105, 99, 101,
                              95, 104, 105, 115, 116, 111, 114, 121>>
        /\ Len(historySchema.Fields) = 5
        /\ historySchema.Fields[4].Name = "amount"
        /\ historySchema.Fields[4].Position.Index = 3
        /\ historySchema.Fields[5].Name = "owner_id"
        /\ historySchema.Fields[5].Position.Index = 4
        /\ info.AuthzPolicy.Enabled
        /\ info.AuthzPolicy.IDField = <<79, 119, 110, 101, 114, 73, 68>>
        /\ "OrgOwned" \in DOMAIN info.AuthzPolicy
        /\ info.AuthzPolicy.OrgOwned

\* C26 as stated: generateHistorySchema called with an idType that is neither
\* int nor string returns ErrUnsupportedIDType, no history schema, and no
\* schema file is rendered.
C26_UnsupportedIDType ==
    (Returned_generateHistorySchema /\ idType \notin {"int", "string"}) =>
        /\ dpc = "failed"
        /\ derr = <<"error", "unsupported id type, only int and strings are allowed">>
        /\ historySchema = NoSchema
        /\ ~Built

\* C26: generateHistorySchema called with an idType that is neither int nor
\* string fails, returns no history schema and renders no schema file; the
\* error is ErrUnsupportedIDType when the schema path yields a package, and
\* the error of getPkgFromSchemaPath, which is looked at first, when not.
C26_UnsupportedIDTypeAfterPath ==
    (Returned_generateHistorySchema /\ idType \notin {"int", "string"}) =>
        /\ dpc = "failed"
        /\ historySchema = NoSchema
        /\ ~Built
        /\ derr = IF config.SchemaPath = "./schema"
                     THEN <<"error", "unsupported id type, only int and strings are allowed">>
                     ELSE <<"error", "invalid schema path, unable to find package name in path">>

\* With a schema path that yields a package, the ID type bool has failed
\* with ErrUnsupportedIDType.
C26_Witness ==
    /\ dpc = "failed"
    /\ idType = "bool"
    /\ config.SchemaPath = "./schema"
    /\ derr = ErrUnsupportedIDType
    /\ historySchema = NoSchema

\* C27: when a schema that is not excluded has no node with an ID type, the
\* run ends with the closure returning an error that wraps ErrNoIDType and
\* names that schema, in the sequential and in the concurrent revisions.
C27_NoIDTypeReported ==
    \A i \in 1..Len(gSchemas) :
        (/\ ~gSchemas[i].exclude
         /\ ~gSchemas[i].hasID
         /\ gpc \in {"returned", "panic"}) =>
            /\ gpc = "returned"
            /\ ErrorIs(gerr, <<"error", "could not get id type for schema">>)
            /\ gerr[Len(gerr)] = gSchemas[i].name

(***************************************************************************)
(* Further claims about the Mutation Hook Dispatcher (checked under Spec)  *)
(***************************************************************************)
\* The history rows caller c has written for the given operation.
RowsOf(c, operation) ==
    {r \in 1..Len(history) : history[r].by = c /\ history[r].operation = operation}
OperationOf(op) ==
    CASE op = OpCreate -> "create"
      [] op \in {OpUpdate, OpUpdateOne} -> "update"
      [] OTHER -> "delete"
Last(rows) == CHOOSE r \in rows : \A q \in rows : q <= r

\* C28 (state part): when the underlying update or delete failed, its history
\* callback had succeeded before, the hook returns the error of the
\* underlying mutation, and the history row is in the table.
C28_FailedAfterHistory ==
    \A c \in Callers :
        m[c].op \in {OpUpdate, OpUpdateOne, OpDelete, OpDeleteOne} =>
            \A j \in Failed(c, {"Mutate"}) :
                /\ \E k \in Succeeded(c, {MatchingCallback(m[c].op)}) : k < j
                /\ Done(c) => (ret[c].err = log[c][j].err /\ ret[c].err # Nil)
                /\ RowsOf(c, OperationOf(m[c].op)) # {}

\* C28 (step part): no step removes or changes a row of the history table.
C28_RowsStay ==
    /\ Len(history') >= Len(history)
    /\ SubSeq(history', 1, Len(history)) = history

\* C28: if the underlying update or delete fails after the history callback
\* succeeded, the hook returns that error and the history row stays: a
\* history row for a change that was never applied to the entity.
C28_HistoryWithoutChange == []C28_FailedAfterHistory /\ [][C28_RowsStay]_vars

\* The only mutation, an UpdateOne, has failed in the underlying update: the
\* history table holds its row and the entity is as the row shows it.
C28_Witness ==
    \E c \in Callers :
        /\ started = 1
        /\ Done(c) /\ m[c].op = OpUpdateOne
        /\ Failed(c, {"Mutate"}) # {}
        /\ ret[c] = [value |-> Nil, err |-> ErrMutate]
        /\ Len(history) = 1
        /\ history[1].by = c /\ history[1].operation = "update"
        /\ entity = [exists |-> history[1].exists, ver |-> history[1].ver]

C29_RowBeforeWrite ==
    \A c \in Callers :
        (/\ m[c].op \in {OpUpdate, OpUpdateOne}
         /\ Running(c, "Mutate", "exec")
         /\ Len(log'[c]) = Len(log[c]) + 1
         /\ log'[c][Len(log'[c])] = Event("Mutate", 0, Nil)) =>
            /\ RowsOf(c, "update") # {}
            /\ LET row == history[Last(RowsOf(c, "update"))]
               IN  /\ row.ver <= entity.ver
                   /\ [exists |-> row.exists, ver |-> row.ver] # entity =>
                         \E d \in Callers \ {c} : m[d] # NoMutation

AtHookReturn(c) ==
    \/ Running(c, "historyHookCreate", "CreateHistoryFromCreate")
    \/ Running(c, "historyHookUpdate", "return")
    \/ Running(c, "historyHookDelete", "return")

\* C30 (state part): a chain that has returned without error returns a value,
\* the one the underlying mutation returned: for a lone mutation, the value
\* of the entity as the mutation left it.
C30_ValueReturned ==
    \A c \in Callers :
        (Done(c) /\ ret[c].err = Nil) =>
            /\ Succeeded(c, {"Mutate"}) # {}
            /\ ret[c].value # Nil
            /\ started = 1 => ret[c].value = <<"value", entity.ver>>

\* C30 (step part): a history hook that returns without error returns the
\* value next.Mutate handed to it.
C30_HookKeepsValue ==
    \A c \in Callers :
        (/\ AtHookReturn(c)
         /\ stack'[c] = Pop(stack[c])
         /\ ret'[c].err = Nil) =>
            /\ ret[c].err = Nil
            /\ ret'[c].value = ret[c].value

\* C30: when every step succeeds, each history hook returns the value of the
\* underlying mutation and a nil error: the create hook the value it holds
\* since before the history write, the update and delete hooks the result
\* of next.Mutate as it is.
C30_ReturnsUnderlyingValue == []C30_ValueReturned /\ [][C30_HookKeepsValue]_vars

\* A create and then a delete have both returned the value of the underlying
\* mutation without error.
C30_Witness ==
    \E c, d \in Callers :
        /\ c # d
        /\ Done(c) /\ m[c].op = OpCreate
        /\ Done(d) /\ m[d].op = OpDeleteOne
        /\ ret[c] = [value |-> <<"value", 1>>, err |-> Nil]
        /\ ret[d] = [value |-> <<"value", 1>>, err |-> Nil]
        /\ Len(history) = 2
        /\ ~entity.exists

(***************************************************************************)
(* Further claims about the Generation Coordinator (checked under SpecGen) *)
(***************************************************************************)
\* C31: in the concurrent coordinator the WaitGroup counter is never
\* negative: each wg.Done of a createSchemas goroutine has its wg.Add(1),
\* made before the goroutine was started.
C31_CounterNonNegative ==
    variant \in Concurrent =>
        /\ wg >= 0
        /\ wg = Cardinality({i \in Tasks : tpc[i] \notin {"unstarted", "done", "fatalpanic"}})

\* The list holds no name twice.
NoDuplicates(s) == \A k, l \in 1..Len(s) : k # l => s[k] # s[l]

\* C32: every invocation of the generator hands to gen.NewGraph only the
\* schemas collected during that invocation: the list of a second invocation
\* on the same extension holds nothing of the first, so no schema twice and
\* no more than the input schemas and one history schema for each.
C32_OnlyThisInvocation ==
    graph # NoGraph =>
        /\ NoDuplicates(graph)
        /\ Len(graph) <= 2 * Len(gSchemas)

(***************************************************************************)
(* Claims about the coordinator fed its own output (checked under SpecFeed) *)
(***************************************************************************)
\* The input schemas that are the history schema of another input schema,
\* one that is not excluded.
DerivedInputs ==
    {i \in 1..Len(gSchemas) :
        \E j \in 1..Len(gSchemas) :
            /\ ~gSchemas[j].exclude
            /\ gSchemas[i].name = HistoryName(gSchemas[j].name)}
InputNames == {gSchemas[i].name : i \in 1..Len(gSchemas)}

\* C33: the history schemas a coordinator derives are annotated isHistory
\* and exclude, so a coordinator invoked on the list it has handed to
\* gen.NewGraph hands over the same set of schema names again: the history
\* schemas of the run before are dropped and derived again from their
\* originals, and none of them gets a history schema of its own.
C33_FedBack ==
    (fed /\ graph # NoGraph) =>
        /\ \A i \in DerivedInputs : gSchemas[i].exclude /\ gSchemas[i].isHistory
        /\ Range(graph) = InputNames
        /\ \A i \in DerivedInputs : HistoryName(gSchemas[i].name) \notin Range(graph)

\* Three tracked schemas and their history schemas have been fed back and
\* handed over again.
C33_Witness ==
    /\ fed
    /\ generated
    /\ gerr = Nil
    /\ Len(gSchemas) = 6
    /\ DerivedInputs = {2, 4, 6}
    /\ graph = << Zeta, HistoryName(Zeta), Alpha, HistoryName(Alpha),
                  Mu, HistoryName(Mu) >>

(***************************************************************************)
(* Further claims about the Schema Derivation Engine (checked under        *)
(* SpecDerive)                                                             *)
(***************************************************************************)
\* The step of generateHistorySchema in a revision that clones the fields,
\* past getTemplateInfo and loadHistorySchema.
ClonedStep ==
    /\ dpc = "generateHistorySchema"
    /\ revision \in Cloning
    /\ dpc' # dpc
    /\ Derivable

\* C34 (step): createHistoryFields leaves its input as it was: after the
\* cloning every field of the schema has the unique flag and the Position
\* (index, mixedIn, mixin index) it had, and the ownership the inferencer
\* computes afterwards is that of the mixed-in flags the fields had before.
C34_InputKept ==
    ClonedStep =>
        /\ Len(schema'.Fields) = Len(schema.Fields)
        /\ \A k \in 1..Len(schema.Fields) :
              /\ schema'.Fields[k].Unique = schema.Fields[k].Unique
              /\ schema'.Fields[k].Position = schema.Fields[k].Position
        /\ (Inferred' /\ AuthzParsed) =>
              \A k \in OwnerFields :
                  LET f == schema.Fields[k]
                  IN  (/\ f.Position.MixedIn
                       /\ Contains(f.Comment, <<111, 114, 103, 97, 110, 105, 122,
                                                97, 116, 105, 111, 110>>)
                       /\ ~Contains(f.Comment, <<117, 115, 101, 114>>)) =>
                          info'.AuthzPolicy.OrgOwned

\* C34: createHistoryFields leaves its input unchanged.
C34_InputUnchanged == [][C34_InputKept]_vars

\* A schema with a unique mixed-in field and a mixed-in owner_id of an
\* organization has been cloned: the clone of the unique field is not unique
\* and not mixed in, the field itself still is both, and the schema is found
\* to be owned by an organization.
C34_Witness ==
    /\ revision = "part_003"
    /\ dpc = "derived"
    /\ Inferred /\ AuthzParsed
    /\ info.AuthzPolicy.OrgOwned
    /\ \E k \in 1..Len(schema.Fields) :
          /\ schema.Fields[k].Unique
          /\ schema.Fields[k].Position.MixedIn
          /\ ~historySchema.Fields[3 + k].Unique
          /\ ~historySchema.Fields[3 + k].Position.MixedIn

\* C35: the inferencer runs only for a config with authorization enabled
\* and only turns the policy off: a descriptor with Enabled = true comes
\* from a config with Auth.Enabled = true, a config with authorization off
\* leaves the descriptor as getTemplateInfo made it, and Enabled is decided
\* by the config, the Authz annotation and schema.Policy alone, whatever
\* OrgOwned and UserOwned are.
C35_OnlyTurnsOff ==
    Built =>
        /\ info.AuthzPolicy.Enabled => config.Auth.Enabled
        /\ ~config.Auth.Enabled =>
              /\ info.AuthzPolicy.ObjectType = <<>>
              /\ info.AuthzPolicy.IDField = <<>>
              /\ revision # "part_001" =>
                    (~info.AuthzPolicy.OrgOwned /\ ~info.AuthzPolicy.UserOwned)
        /\ revision # "part_001" =>
              info.AuthzPolicy.Enabled =
                  (config.Auth.Enabled /\ (AuthzParsed \/ schema.Policy # <<>>))

\* Authorization is enabled in the config and the inferencer has turned the
\* policy off for a schema without Authz annotation and without policy that
\* has a mixed-in owner_id.
C35_Witness ==
    /\ revision = "generateschemas.go"
    /\ dpc = "derived"
    /\ config.Auth.Enabled
    /\ ~schema.Annotations.Authz.present
    /\ schema.Policy = <<>>
    /\ \E k \in OwnerFields : schema.Fields[k].Position.MixedIn
    /\ ~info.AuthzPolicy.Enabled

(***************************************************************************)
(* Further claims about the Generation Coordinator (checked under SpecGen) *)
(***************************************************************************)
\* How often the name is in the list.
Count(name, list) == Cardinality({k \in 1..Len(list) : list[k] = name})

\* C36: in the list handed to gen.NewGraph an input schema that is excluded
\* and not a history schema is once, without a history schema; an input
\* schema that is excluded and a history schema is not; an input schema that
\* is not excluded is once and its history schema is once.
C36_PassThrough ==
    graph # NoGraph =>
        \A i \in 1..Len(gSchemas) :
            LET sch == gSchemas[i]
            IN  /\ (sch.exclude /\ ~sch.isHistory) =>
                      /\ Count(sch.name, graph) = 1
                      /\ Count(HistoryName(sch.name), graph) = 0
                /\ (sch.exclude /\ sch.isHistory) => Count(sch.name, graph) = 0
                /\ ~sch.exclude =>
                      /\ Count(sch.name, graph) = 1
                      /\ Count(HistoryName(sch.name), graph) = 1

====
